---- MODULE Spec2Model ----
(***************************************************************************)
(* Divergence correction workflow of financial-etl-framework:              *)
(* DivergenceProcessor.aplicar_correcoes and its two per-divergence paths, *)
(* over the AuditLogger ledger, on one psycopg2 connection.                *)
(*                                                                         *)
(* The database is modelled by two copies of its tables: db is what has    *)
(* been committed, tx is what the connection sees (db plus the statements  *)
(* executed since the last commit or rollback).  conn.commit() makes       *)
(* db = tx, conn.rollback() makes tx = db.  Every statement may fail       *)
(* (psycopg2.Error); the number of failures in a run is bounded.           *)
(***************************************************************************)
EXTENDS Integers, Sequences, FiniteSets, TLC

VARIABLES
    db,            \* committed tables: ctrl, ops, divs, sess
    tx,            \* the connection's view: committed + uncommitted statements
    abortada,      \* the connection's transaction is aborted (a statement failed, no rollback yet)
    pc,            \* position of the running workflow
    divergencias,  \* argument of aplicar_correcoes
    modo,          \* argument of aplicar_correcoes
    limite,        \* argument limite_auto_aplicacao (confidence in hundredths)
    i,             \* index of the divergence the loop is at (1-based)
    op_id,         \* local op_id (0: not bound)
    div_id,        \* local div_id (0: not bound)
    rowcount,      \* cursor.rowcount after the UPDATE
    erro,          \* the exception in flight ("none": no exception)
    resultado,     \* the summary dict built by aplicar_correcoes
    falhas,        \* number of statements that failed so far
    hist,          \* observations of the run: calls made, paths taken, values before
    chamador,      \* who called aplicar_correcoes: "direto", "processar" or "executar"
    req,           \* the API request being served and the requests served so far
    run,           \* the locals of DailyProcessor.executar
    det,           \* the detectar_divergencias call: view rows, arguments, scan results
    con,           \* the use of db_connection and the ledger write under way: calls made on the connection
    aviso,         \* the NotificationService and its enviar_alerta_divergencias call
    par            \* two requests of the REST facade served at the same time, each on its own connection

vars == <<db, tx, abortada, pc, divergencias, modo, limite, i, op_id, div_id,
          rowcount, erro, resultado, falhas, hist, chamador, req, run, det, con,
          aviso, par>>

----------------------------------------------------------------------------
(* Bounds of the model *)

\* longest list handed to aplicar_correcoes
MaxDivs == 2
\* most statements that fail in one run
MaxFalhas == 2
\* longest list detectar_divergencias returns to an endpoint or to executar
MaxDetectadas == 1
\* most rows of byd.bonus_view when detectar_divergencias is called
MaxLinhas == 2
\* most ledger writes made inside one db_connection block
MaxEscritas == 2
\* most calls of enviar_alerta_divergencias on one NotificationService
MaxAlertas == 2
\* most uses of operacao_auditada in one run, and most writes of one body
MaxOperacoes == 2

----------------------------------------------------------------------------
(* Data *)

NULL == "NULL"

\* None in a numeric column or argument (no amount of the model is -1)
SemValor == -1

\* byd.controladoria: NF1 has one row, NF2 has two rows, NF3 has none
TabelaInicial ==
    << [idnfsexterno |-> "NF1", bonus_dpto |-> 0, trade_mkt_dpto |-> 0],
       [idnfsexterno |-> "NF2", bonus_dpto |-> 0, trade_mkt_dpto |-> 0],
       [idnfsexterno |-> "NF2", bonus_dpto |-> 0, trade_mkt_dpto |-> 0] >>

TiposAuto == {"TRADE_MARKETING_BONUS", "TRADE_MARKETING_TRADE"}

\* Divergencia(idnfsexterno, tipo, campo_afetado, valor_atual, valor_esperado, confianca)
Divergencia(nf, tipo, campo, atual, esperado, conf) ==
    [idnfsexterno |-> nf, tipo |-> tipo, campo_afetado |-> campo,
     valor_atual |-> atual, valor_esperado |-> esperado, confianca |-> conf]

\* the divergences a caller hands to aplicar_correcoes (confidence in hundredths)
Universo ==
    { Divergencia("NF1", "TRADE_MARKETING_BONUS", "bonus_dpto", 0, 1, 95),
      Divergencia("NF2", "TRADE_MARKETING_TRADE", "trade_mkt_dpto", 0, 2, 95),
      Divergencia("NF1", "TRADE_MARKETING_BONUS", "bonus_dpto", 0, 1, 70),
      Divergencia("NF1", "PENDENTE_VERIFICACAO", "bonus_utilizado", SemValor, SemValor, 50),
      Divergencia("NF2", "VALIDACAO_VALOR", "valores_bonus", SemValor, SemValor, 70),
      Divergencia("NF3", "TRADE_MARKETING_BONUS", "bonus_dpto", 0, 1, 95) }

\* detectar_divergencias: default limite_confianca, 0.8
LimiteConfiancaPadrao == 80

\* aplicar_correcoes: default limite_auto_aplicacao, 0.95
LimiteAutoPadrao == 95

\* what detectar_divergencias hands on with its default limite_confianca:
\* the divergences of confidence at least 0.8
Detectaveis == { d \in Universo : d.confianca >= LimiteConfiancaPadrao }

Modos == {"auto", "manual"}

\* limite_auto_aplicacao: the default 0.95 and a lower one
Limites == {95, 70}

\* the lists of at most n elements of U
RECURSIVE ListasDe(_, _)
ListasDe(U, n) ==
    IF n = 0 THEN { <<>> }
    ELSE LET menores == ListasDe(U, n - 1)
         IN  menores \cup { Append(l, d) : l \in { m \in menores : Len(m) = n - 1 }, d \in U }

BancoVazio == [ctrl |-> TabelaInicial, ops |-> <<>>, divs |-> <<>>, sess |-> <<>>]

ResultadoVazio ==
    [total_divergencias |-> 0, corrigidas_automaticamente |-> 0,
     pendentes_aprovacao |-> 0, erros |-> 0, detalhes |-> <<>>]

\* no API request yet
PedidoVazio ==
    [feitos |-> {},        \* endpoints already called
     ids |-> <<>>,         \* request.divergencia_ids
     j |-> 1,              \* index in divergencia_ids
     valor_customizado |-> SemValor,
     linha |-> NULL,       \* the row fetched by the SELECT of the approve endpoint
     resultados |-> <<>>]  \* resultados of the approve endpoint

\* executar not started
ExecVazio ==
    [sessao_id |-> 0,
     total_divergencias |-> 0,
     erros |-> <<>>,       \* resultado['erros']
     status |-> "ERROR",   \* resultado['status']
     etapas |-> <<>>,      \* the stages passed, in order
     trilha |-> <<>>,      \* the stages entered, in order
     fim_sessao |-> 0,     \* finalizar_sessao_processamento calls made
     alerta_critico |-> 0, \* enviar_alerta_falha_critica calls made
     critico |-> "nenhum", \* how the enviar_alerta_falha_critica call ended
     fatal |-> "nenhum",   \* the step whose exception reached the except block
     alerta_div |-> 0]     \* enviar_alerta_divergencias calls made

\* detectar_divergencias not called
DetVazio ==
    [visao |-> <<>>,             \* the rows of byd.bonus_view
     data_inicio |-> 0,
     data_fim |-> 0,
     tipo_divergencia |-> NULL,
     limite_confianca |-> LimiteConfiancaPadrao,
     rows_trade |-> <<>>,        \* rows fetched by each scan
     rows_pendentes |-> <<>>,
     rows_valores |-> <<>>,
     divergencias_trade |-> <<>>,
     divergencias_pendentes |-> <<>>,
     divergencias_valores |-> <<>>,
     divergencias |-> <<>>,      \* the local list the scans' results are added to
     feitas |-> <<>>,            \* the scans called, in order
     retorno |-> <<>>]           \* divergencias_filtradas, once returned

\* db_connection not entered
ConVazio ==
    [conn |-> FALSE,       \* conn is bound: get_connection returned
     bloco |-> "nenhum",   \* how the with block ended: "normal" or "levantou"
     erro |-> "nenhum",    \* the call whose exception db_connection is handling
     gerente |-> <<>>,     \* the calls db_connection made on the connection, in order
     escritas |-> 0,       \* ledger writes the block called
     escrita |-> NULL,     \* the ledger write under way, or the last one made
     pendente |-> FALSE,   \* the block had an uncommitted statement when it called the write
     antes |-> BancoVazio, \* the committed tables when the ledger write was called
     chamadas |-> <<>>,    \* the calls the ledger write made on the connection, in order
     falhou |-> "nenhum",  \* the call of the ledger write that raised
     desfecho |-> "nenhum"]  \* how the ledger write ended: "retornou" or "levantou"

\* no UPDATE of byd.controladoria executed for the operation
SemAlvo == [idnfsexterno |-> NULL, campo |-> NULL, linhas |-> 0, feito |-> FALSE]

\* no NotificationService built
AvisoVazio ==
    [smtp_enabled |-> FALSE,
     default_recipients |-> 0,    \* how many addresses NOTIFICATION_RECIPIENTS holds
     total_divergencias |-> 0,
     divergencias_criticas |-> 0,
     divergencias_pendentes |-> 0,
     destinatarios |-> SemValor,  \* how many addresses the call uses (SemValor: None)
     severidade |-> NULL,
     chamadas |-> 0,              \* calls of enviar_alerta_divergencias made
     enviados |-> 0,              \* e-mails handed to the SMTP server by the current call
     retorno |-> NULL]            \* what the call returned: "True" or "False"

\* a request of the pair: no request being served
PedidoParVazio ==
    [tipo |-> NULL,               \* "aprovar" or "rejeitar"
     pc |-> "fim",                \* position of the request in its handler
     valor_customizado |-> SemValor,
     linha |-> NULL,              \* the row its SELECT returned
     op_id |-> 0,
     pendente |-> FALSE,          \* its connection holds an UPDATE of byd.controladoria not committed
     abortada |-> FALSE,          \* its transaction is aborted
     status |-> NULL]             \* "aprovado", "rejeitado" or "erro" in its response

ParVazio ==
    [pedidos |-> <<PedidoParVazio, PedidoParVazio>>,
     escritas |-> 0,       \* committed UPDATEs of byd.controladoria
     efeitos |-> <<>>]     \* the requests whose status update was committed, in order

HistVazio ==
    [fin   |-> <<>>,    \* per operation id: finalizar_operacao calls made for it
     alvo  |-> <<>>,    \* per operation id: what its UPDATE of the target table wrote
     rota  |-> <<>>,    \* per processed divergence: the path it was sent to
     upd   |-> {},      \* indices of the divergences whose UPDATE was executed
     antes |-> TabelaInicial,  \* committed byd.controladoria when the current auto-apply began
     passo |-> {},      \* steps of the current divergence that failed so far
     falhou |-> <<>>,   \* per processed divergence: the steps that failed
     reg   |-> <<>>]    \* per processed divergence: the id of its divergence record (0: none)

----------------------------------------------------------------------------
(* SQL statements of the ledger (audit_logger.py) and of the target table *)

\* INSERT INTO audit.operacoes (...) VALUES (..., 'PENDING', ...)
InsertOperacao(s, tipo, origem) ==
    [s EXCEPT !.ops = Append(@, [tipo_operacao |-> tipo, origem |-> origem,
                                  status |-> "PENDING", registros_afetados |-> 0,
                                  erro_mensagem |-> NULL, timestamp_fim |-> 0])]

\* variant: erro_mensagem is not passed on
UpdateOperacaoSemMensagem(s, id, status, registros, msg) ==
    IF id \in DOMAIN s.ops
    THEN [s EXCEPT !.ops[id] = [@ EXCEPT !.status = status,
                                         !.registros_afetados = registros,
                                         !.erro_mensagem = NULL,
                                         !.timestamp_fim = @ + 1]]
    ELSE s

\* UPDATE audit.operacoes SET timestamp_fim = NOW(), status = ..., ... WHERE id = ...
\* timestamp_fim is the ordinal of the finalization that stamped it (0: NULL)
UpdateOperacao(s, id, status, registros, msg) ==
    IF id \in DOMAIN s.ops
    THEN [s EXCEPT !.ops[id] = [@ EXCEPT !.status = status,
                                         !.registros_afetados = registros,
                                         !.erro_mensagem = msg,
                                         !.timestamp_fim = @ + 1]]
    ELSE s

\* INSERT INTO audit.divergencias_processadas (...) VALUES (..., 'DETECTED', ...)
InsertDivergencia(s, op, d) ==
    [s EXCEPT !.divs = Append(@, [operacao_id |-> op, idnfsexterno |-> d.idnfsexterno,
                                   tipo_divergencia |-> d.tipo,
                                   campo_afetado |-> d.campo_afetado,
                                   valor_sugerido |-> d.valor_esperado,
                                   confidence_score |-> d.confianca,
                                   status_processamento |-> "DETECTED",
                                   valor_aplicado |-> SemValor,
                                   motivo_rejeicao |-> NULL])]

\* UPDATE audit.divergencias_processadas SET status_processamento = ..., ... WHERE id = ...
UpdateDivergencia(s, id, status, valor, motivo) ==
    IF id \in DOMAIN s.divs
    THEN [s EXCEPT !.divs[id] = [@ EXCEPT !.status_processamento = status,
                                          !.valor_aplicado = valor,
                                          !.motivo_rejeicao = motivo]]
    ELSE s

\* rows of byd.controladoria with WHERE idnfsexterno = nf
Linhas(s, nf) == { r \in DOMAIN s.ctrl : s.ctrl[r].idnfsexterno = nf }

\* UPDATE byd.controladoria SET {campo} = valor WHERE idnfsexterno = nf
UpdateControladoria(s, campo, valor, nf) ==
    [s EXCEPT !.ctrl = [r \in DOMAIN s.ctrl |->
        IF s.ctrl[r].idnfsexterno = nf
        THEN [s.ctrl[r] EXCEPT ![campo] = valor]
        ELSE s.ctrl[r]]]

----------------------------------------------------------------------------
(* Outcome of a statement: it succeeds, or fails while the budget lasts.   *)
(* On an aborted transaction every statement fails.                        *)

Desfecho(ok) ==
    /\ ok => ~abortada
    /\ (~ok /\ ~abortada) => falhas < MaxFalhas
    /\ falhas' = IF ~ok /\ ~abortada THEN falhas + 1 ELSE falhas

\* a ledger call that succeeded: statement executed on tx, then self.conn.commit()
Commit(s) == /\ tx' = s
             /\ db' = s
             /\ abortada' = FALSE

\* a ledger call that failed: self.conn.rollback(), then raise; also a
\* conn.commit() that failed: the transaction is over and nothing of it is kept
Rollback == /\ tx' = db
            /\ db' = db
            /\ abortada' = FALSE

\* one more finalizar_operacao call made for operation id
ContaFin(h, id) ==
    [h EXCEPT !.fin = [k \in DOMAIN h.fin |-> IF k = id THEN h.fin[k] + 1 ELSE h.fin[k]]]

----------------------------------------------------------------------------
(* aplicar_correcoes (divergence_processor.py 406-501)                      *)

\* variants of the decision: strict comparison; modo not looked at
AplicarAutoEstrito(d, m, l) ==
    /\ m = "auto"
    /\ d.confianca > l
    /\ d.tipo \in TiposAuto

AplicarAutoSemModo(d, m, l) ==
    /\ d.confianca >= l
    /\ d.tipo \in TiposAuto

\* lines 447-451: the decision between the write path and the pending path
AplicarAuto(d, m, l) ==
    /\ m = "auto"
    /\ d.confianca >= l
    /\ d.tipo \in TiposAuto

Detalhe(d, status, motivo) ==
    [idnfsexterno |-> d.idnfsexterno, tipo |-> d.tipo, status |-> status, motivo |-> motivo]

\* lines 455-462: sucesso == True
ResCorrigido(res, d) ==
    [res EXCEPT !.corrigidas_automaticamente = @ + 1,
                !.detalhes = Append(@, Detalhe(d, "CORRIGIDO_AUTO", NULL))]

\* variant: the error is counted and no detail is appended
ResErroSemDetalhe(res, d, motivo) ==
    [res EXCEPT !.erros = @ + 1]

\* lines 463-470 (sucesso == False) and 482-492 (except Exception)
ResErro(res, d, motivo) ==
    [res EXCEPT !.erros = @ + 1,
                !.detalhes = Append(@, Detalhe(d, "ERRO", motivo))]

\* lines 473-480
ResPendente(res, d) ==
    [res EXCEPT !.pendentes_aprovacao = @ + 1,
                !.detalhes = Append(@, Detalhe(d, "PENDENTE_APROVACAO", NULL))]

\* the divergence the loop is at
Div == divergencias[i]

\* the loop goes on to the next divergence
Proxima ==
    /\ i' = i + 1
    /\ pc' = "loop"

\* a step of the current divergence failed: remember which
Falhou(h, passo) == [h EXCEPT !.passo = @ \cup {passo}]

\* the current divergence is done: file its failed steps
Arquiva(h, id) ==
    [h EXCEPT !.falhou = Append(@, h.passo), !.passo = {}, !.reg = Append(@, id)]

\* a new call of aplicar_correcoes starts a new record of its iterations
NovaChamada(h) ==
    [h EXCEPT !.rota = <<>>, !.upd = {}, !.falhou = <<>>, !.passo = {}, !.reg = <<>>]

\* the call itself: lines 436-442
AplicarCorrecoes ==
    /\ pc = "idle"
    /\ \E lista \in ListasDe(Universo, MaxDivs), m \in Modos, l \in Limites :
          /\ divergencias' = lista
          /\ modo' = m
          /\ limite' = l
          /\ resultado' = [ResultadoVazio EXCEPT !.total_divergencias = Len(lista)]
    /\ i' = 1
    /\ pc' = "loop"
    /\ hist' = NovaChamada(hist)
    /\ chamador' = "direto"
    /\ UNCHANGED <<db, tx, abortada, op_id, div_id, rowcount, erro, falhas, req, run>>
    /\ UNCHANGED <<det, con, aviso, par>>

\* line 501: return resultado, to the caller
Retornar ==
    /\ pc = "loop"
    /\ i > Len(divergencias)
    /\ pc' = CASE chamador = "direto" -> "ret"
               [] chamador = "processar" -> "x_saida"
               [] chamador = "executar" -> "e_relatorio"
    /\ UNCHANGED <<db, tx, abortada, divergencias, modo, limite, i, op_id, div_id,
                   rowcount, erro, resultado, falhas, hist, chamador, req, run>>
    /\ UNCHANGED <<det, con, aviso, par>>

----------------------------------------------------------------------------
(* _aplicar_correcao_automatica (divergence_processor.py 503-606)           *)

\* variant: the INSERT of the operation record is left uncommitted
AutoIniciarOperacaoSemCommit ==
    /\ pc = "loop"
    /\ i <= Len(divergencias)
    /\ AplicarAuto(Div, modo, limite)
    /\ \E ok \in BOOLEAN :
          /\ Desfecho(ok)
          /\ IF ok
             THEN /\ tx' = InsertOperacao(tx, "UPDATE", "AUTOMATION")
                  /\ UNCHANGED <<db, abortada>>
                  /\ op_id' = Len(tx.ops) + 1
                  /\ erro' = "none"
                  /\ pc' = "a_select"
                  /\ hist' = [hist EXCEPT !.fin = Append(@, 0), !.alvo = Append(@, SemAlvo),
                                          !.rota = Append(@, "auto"),
                                          !.antes = db.ctrl]
             ELSE /\ Rollback
                  /\ op_id' = 0
                  /\ erro' = "falha em iniciar_operacao"
                  /\ pc' = "a_except"
                  /\ hist' = Falhou([hist EXCEPT !.rota = Append(@, "auto"),
                                                 !.antes = db.ctrl], "iniciar")
    /\ div_id' = 0
    /\ rowcount' = 0
    /\ UNCHANGED <<divergencias, modo, limite, i, resultado>>
    /\ UNCHANGED <<chamador, req, run>>
    /\ UNCHANGED <<det, con, aviso, par>>

\* lines 514-520: self.audit.iniciar_operacao('UPDATE', ..., 'AUTOMATION')
AutoIniciarOperacao ==
    /\ pc = "loop"
    /\ i <= Len(divergencias)
    /\ AplicarAuto(Div, modo, limite)
    /\ \E ok \in BOOLEAN :
          /\ Desfecho(ok)
          /\ IF ok
             THEN /\ Commit(InsertOperacao(tx, "UPDATE", "AUTOMATION"))
                  /\ op_id' = Len(tx.ops) + 1
                  /\ erro' = "none"
                  /\ pc' = "a_select"
                  /\ hist' = [hist EXCEPT !.fin = Append(@, 0), !.alvo = Append(@, SemAlvo),
                                          !.rota = Append(@, "auto"),
                                          !.antes = db.ctrl]
             ELSE /\ Rollback
                  /\ op_id' = 0
                  /\ erro' = "falha em iniciar_operacao"
                  /\ pc' = "a_except"
                  /\ hist' = Falhou([hist EXCEPT !.rota = Append(@, "auto"),
                                                 !.antes = db.ctrl], "iniciar")
    /\ div_id' = 0
    /\ rowcount' = 0
    /\ UNCHANGED <<divergencias, modo, limite, i, resultado>>
    /\ UNCHANGED <<chamador, req, run>>
    /\ UNCHANGED <<det, con, aviso, par>>

\* lines 523-529: SELECT {campo} FROM byd.controladoria WHERE idnfsexterno = %s
AutoSelect ==
    /\ pc = "a_select"
    /\ \E ok \in BOOLEAN :
          /\ Desfecho(ok)
          /\ IF ok
             THEN /\ pc' = "a_update"
                  /\ UNCHANGED <<abortada, erro, hist>>
             ELSE /\ abortada' = TRUE
                  /\ erro' = "falha em select"
                  /\ pc' = "a_except"
                  /\ hist' = Falhou(hist, "select")
    /\ UNCHANGED <<db, tx, divergencias, modo, limite, i, op_id, div_id, rowcount, resultado>>
    /\ UNCHANGED <<chamador, req, run>>
    /\ UNCHANGED <<det, con, aviso, par>>

\* lines 532-542: UPDATE byd.controladoria SET {campo} = %s WHERE idnfsexterno = %s
AutoUpdate ==
    /\ pc = "a_update"
    /\ \E ok \in BOOLEAN :
          /\ Desfecho(ok)
          /\ IF ok
             THEN /\ tx' = UpdateControladoria(tx, Div.campo_afetado, Div.valor_esperado,
                                               Div.idnfsexterno)
                  /\ rowcount' = Cardinality(Linhas(tx, Div.idnfsexterno))
                  /\ pc' = "a_registrar"
                  /\ hist' = [hist EXCEPT !.upd = @ \cup {i},
                                          !.alvo[op_id] =
                                              [idnfsexterno |-> Div.idnfsexterno,
                                               campo |-> Div.campo_afetado,
                                               linhas |-> Cardinality(Linhas(tx, Div.idnfsexterno)),
                                               feito |-> TRUE]]
                  /\ UNCHANGED <<abortada, erro>>
             ELSE /\ abortada' = TRUE
                  /\ erro' = "falha em update"
                  /\ pc' = "a_except"
                  /\ hist' = Falhou(hist, "update")
                  /\ UNCHANGED <<tx, rowcount>>
    /\ UNCHANGED <<db, divergencias, modo, limite, i, op_id, div_id, resultado>>
    /\ UNCHANGED <<chamador, req, run>>
    /\ UNCHANGED <<det, con, aviso, par>>

\* lines 545-556: self.audit.registrar_divergencia(...), which commits the connection
AutoRegistrarDivergencia ==
    /\ pc = "a_registrar"
    /\ \E ok \in BOOLEAN :
          /\ Desfecho(ok)
          /\ IF ok
             THEN /\ Commit(InsertDivergencia(tx, op_id, Div))
                  /\ div_id' = Len(tx.divs) + 1
                  /\ pc' = "a_atualizar"
                  /\ UNCHANGED <<erro, hist>>
             ELSE /\ Rollback
                  /\ erro' = "falha em registrar_divergencia"
                  /\ pc' = "a_except"
                  /\ hist' = Falhou(hist, "registrar")
                  /\ UNCHANGED div_id
    /\ UNCHANGED <<divergencias, modo, limite, i, op_id, rowcount, resultado>>
    /\ UNCHANGED <<chamador, req, run>>
    /\ UNCHANGED <<det, con, aviso, par>>

\* lines 559-564: self.audit.atualizar_status_divergencia(div_id, 'AUTO_APPLIED', ...)
AutoAtualizarStatus ==
    /\ pc = "a_atualizar"
    /\ \E ok \in BOOLEAN :
          /\ Desfecho(ok)
          /\ IF ok
             THEN /\ Commit(UpdateDivergencia(tx, div_id, "AUTO_APPLIED",
                                              Div.valor_esperado, NULL))
                  /\ pc' = "a_finalizar"
                  /\ UNCHANGED <<erro, hist>>
             ELSE /\ Rollback
                  /\ erro' = "falha em atualizar_status_divergencia"
                  /\ pc' = "a_except"
                  /\ hist' = Falhou(hist, "atualizar")
    /\ UNCHANGED <<divergencias, modo, limite, i, op_id, div_id, rowcount, resultado>>
    /\ UNCHANGED <<chamador, req, run>>
    /\ UNCHANGED <<det, con, aviso, par>>

\* lines 567-581: self.audit.finalizar_operacao(op_id, 'SUCCESS', registros_afetados, ...)
AutoFinalizarOperacao ==
    /\ pc = "a_finalizar"
    /\ \E ok \in BOOLEAN :
          /\ Desfecho(ok)
          /\ IF ok
             THEN /\ Commit(UpdateOperacao(tx, op_id, "SUCCESS", rowcount, NULL))
                  /\ pc' = "a_commit"
                  /\ hist' = ContaFin(hist, op_id)
                  /\ UNCHANGED erro
             ELSE /\ Rollback
                  /\ erro' = "falha em finalizar_operacao"
                  /\ pc' = "a_except"
                  /\ hist' = Falhou(ContaFin(hist, op_id), "finalizar")
    /\ UNCHANGED <<divergencias, modo, limite, i, op_id, div_id, rowcount, resultado>>
    /\ UNCHANGED <<chamador, req, run>>
    /\ UNCHANGED <<det, con, aviso, par>>

\* lines 583-590: self.conn.commit(); return True -> lines 455-462
AutoCommit ==
    /\ pc = "a_commit"
    /\ \E ok \in BOOLEAN :
          /\ Desfecho(ok)
          /\ IF ok
             THEN /\ db' = tx
                  /\ resultado' = ResCorrigido(resultado, Div)
                  /\ hist' = Arquiva(hist, div_id)
                  /\ Proxima
                  /\ UNCHANGED <<tx, abortada, erro>>
             ELSE /\ Rollback
                  /\ erro' = "falha em commit"
                  /\ pc' = "a_except"
                  /\ hist' = Falhou(hist, "commit")
                  /\ UNCHANGED <<resultado, i>>
    /\ UNCHANGED <<divergencias, modo, limite, op_id, div_id, rowcount>>
    /\ UNCHANGED <<chamador, req, run>>
    /\ UNCHANGED <<det, con, aviso, par>>

\* lines 592-606: except Exception: self.conn.rollback(); if op_id is bound,
\* finalizar_operacao(op_id, 'FAILED', erro_mensagem=str(e)); return False.
\* A finalizar_operacao that fails here raises out of the method, into the
\* except of aplicar_correcoes (lines 482-492).
AutoExcept ==
    /\ pc = "a_except"
    /\ IF op_id = 0
       THEN /\ Rollback
            /\ resultado' = ResErro(resultado, Div, "Falha na aplicacao automatica")
            /\ hist' = Arquiva(hist, div_id)
            /\ UNCHANGED falhas
       ELSE \E ok \in BOOLEAN :
               /\ (~ok) => falhas < MaxFalhas
               /\ falhas' = IF ok THEN falhas ELSE falhas + 1
               /\ IF ok
                  THEN /\ Commit(UpdateOperacao(db, op_id, "FAILED", 0, erro))
                       /\ resultado' = ResErro(resultado, Div, "Falha na aplicacao automatica")
                       /\ hist' = Arquiva(ContaFin(hist, op_id), div_id)
                  ELSE /\ Rollback
                       /\ resultado' = ResErro(resultado, Div, "falha em finalizar_operacao")
                       /\ hist' = Arquiva(Falhou(ContaFin(hist, op_id), "except"), div_id)
    /\ erro' = "none"
    /\ Proxima
    /\ UNCHANGED <<divergencias, modo, limite, op_id, div_id, rowcount>>
    /\ UNCHANGED <<chamador, req, run>>
    /\ UNCHANGED <<det, con, aviso, par>>

----------------------------------------------------------------------------
(* _registrar_divergencia_pendente (divergence_processor.py 608-635); an    *)
(* exception of any step reaches the except of aplicar_correcoes (482-492)  *)

\* lines 612-617: self.audit.iniciar_operacao('DETECT', ..., 'AUTOMATION')
PendIniciarOperacao ==
    /\ pc = "loop"
    /\ i <= Len(divergencias)
    /\ ~AplicarAuto(Div, modo, limite)
    /\ \E ok \in BOOLEAN :
          /\ Desfecho(ok)
          /\ IF ok
             THEN /\ Commit(InsertOperacao(tx, "DETECT", "AUTOMATION"))
                  /\ op_id' = Len(tx.ops) + 1
                  /\ pc' = "p_registrar"
                  /\ hist' = [hist EXCEPT !.fin = Append(@, 0), !.alvo = Append(@, SemAlvo),
                                          !.rota = Append(@, "pendente")]
                  /\ UNCHANGED <<resultado, i>>
             ELSE /\ Rollback
                  /\ op_id' = 0
                  /\ resultado' = ResErro(resultado, Div, "falha em iniciar_operacao")
                  /\ hist' = Arquiva(Falhou([hist EXCEPT !.rota = Append(@, "pendente")],
                                            "iniciar"), 0)
                  /\ Proxima
    /\ div_id' = 0
    /\ UNCHANGED <<divergencias, modo, limite, rowcount, erro>>
    /\ UNCHANGED <<chamador, req, run>>
    /\ UNCHANGED <<det, con, aviso, par>>

\* lines 619-630: self.audit.registrar_divergencia(...)
PendRegistrarDivergencia ==
    /\ pc = "p_registrar"
    /\ \E ok \in BOOLEAN :
          /\ Desfecho(ok)
          /\ IF ok
             THEN /\ Commit(InsertDivergencia(tx, op_id, Div))
                  /\ div_id' = Len(tx.divs) + 1
                  /\ pc' = "p_finalizar"
                  /\ UNCHANGED <<resultado, i, hist>>
             ELSE /\ Rollback
                  /\ resultado' = ResErro(resultado, Div, "falha em registrar_divergencia")
                  /\ hist' = Arquiva(Falhou(hist, "registrar"), 0)
                  /\ Proxima
                  /\ UNCHANGED div_id
    /\ UNCHANGED <<divergencias, modo, limite, op_id, rowcount, erro>>
    /\ UNCHANGED <<chamador, req, run>>
    /\ UNCHANGED <<det, con, aviso, par>>

\* line 632: self.audit.finalizar_operacao(op_id, status='SUCCESS')
PendFinalizarOperacao ==
    /\ pc = "p_finalizar"
    /\ \E ok \in BOOLEAN :
          /\ Desfecho(ok)
          /\ IF ok
             THEN /\ Commit(UpdateOperacao(tx, op_id, "SUCCESS", 0, NULL))
                  /\ pc' = "p_commit"
                  /\ hist' = ContaFin(hist, op_id)
                  /\ UNCHANGED <<resultado, i>>
             ELSE /\ Rollback
                  /\ resultado' = ResErro(resultado, Div, "falha em finalizar_operacao")
                  /\ hist' = Arquiva(Falhou(ContaFin(hist, op_id), "finalizar"), div_id)
                  /\ Proxima
    /\ UNCHANGED <<divergencias, modo, limite, op_id, div_id, rowcount, erro>>
    /\ UNCHANGED <<chamador, req, run>>
    /\ UNCHANGED <<det, con, aviso, par>>

\* lines 633-635: self.conn.commit(); return div_id -> lines 474-480
PendCommit ==
    /\ pc = "p_commit"
    /\ \E ok \in BOOLEAN :
          /\ Desfecho(ok)
          /\ IF ok
             THEN /\ db' = tx
                  /\ resultado' = ResPendente(resultado, Div)
                  /\ hist' = Arquiva(hist, div_id)
                  /\ UNCHANGED <<tx, abortada>>
             ELSE /\ Rollback
                  /\ resultado' = ResErro(resultado, Div, "falha em commit")
                  /\ hist' = Arquiva(Falhou(hist, "commit"), div_id)
    /\ Proxima
    /\ UNCHANGED <<divergencias, modo, limite, op_id, div_id, rowcount, erro>>
    /\ UNCHANGED <<chamador, req, run>>
    /\ UNCHANGED <<det, con, aviso, par>>

----------------------------------------------------------------------------
(* The correction applier alone: one call of aplicar_correcoes              *)

Init ==
    /\ db = BancoVazio
    /\ tx = BancoVazio
    /\ abortada = FALSE
    /\ pc = "idle"
    /\ divergencias = <<>>
    /\ modo = "manual"
    /\ limite = 95
    /\ i = 1
    /\ op_id = 0
    /\ div_id = 0
    /\ rowcount = 0
    /\ erro = "none"
    /\ resultado = ResultadoVazio
    /\ falhas = 0
    /\ hist = HistVazio
    /\ chamador = "direto"
    /\ req = PedidoVazio
    /\ run = ExecVazio
    /\ det = DetVazio
    /\ con = ConVazio
    /\ aviso = AvisoVazio
    /\ par = ParVazio

Next ==
    \/ AplicarCorrecoes
    \/ Retornar
    \/ AutoIniciarOperacao
    \/ AutoSelect
    \/ AutoUpdate
    \/ AutoRegistrarDivergencia
    \/ AutoAtualizarStatus
    \/ AutoFinalizarOperacao
    \/ AutoCommit
    \/ AutoExcept
    \/ PendIniciarOperacao
    \/ PendRegistrarDivergencia
    \/ PendFinalizarOperacao
    \/ PendCommit

Spec == Init /\ [][Next]_vars

----------------------------------------------------------------------------
(* The REST endpoints of api/routers/divergences.py.  Each request runs on  *)
(* a connection of its own (db_connection), which starts from the committed *)
(* tables.  One /processar request fills the ledger; one /aprovar and one   *)
(* /rejeitar request follow, in either order.                               *)

\* request.divergencia_ids
PedidosDeIds == { <<1>>, <<2>>, <<1, 2>>, <<1, 1>> }

\* request.valor_customizado: absent, or a value of the operator's
ValoresCustomizados == {SemValor, 7}

\* processar_divergencias, lines 221-246: detectar_divergencias with the
\* default limite_confianca, then aplicar_correcoes with request.modo
Processar ==
    /\ pc = "idle"
    /\ req.feitos = {}
    /\ \E lista \in ListasDe(Detectaveis, MaxDetectadas), m \in Modos :
          /\ divergencias' = lista
          /\ modo' = m
          /\ resultado' = [ResultadoVazio EXCEPT !.total_divergencias = Len(lista)]
    /\ limite' = LimiteAutoPadrao
    /\ i' = 1
    /\ pc' = "loop"
    /\ hist' = NovaChamada(hist)
    /\ chamador' = "processar"
    /\ req' = [req EXCEPT !.feitos = {"processar"}]
    /\ tx' = db
    /\ abortada' = FALSE
    /\ UNCHANGED <<db, op_id, div_id, rowcount, erro, falhas, run>>
    /\ UNCHANGED <<det, con, aviso, par>>

\* lines 248-257 and conn.py 86-93: return; db_connection commits and closes
ProcessarSaida ==
    /\ pc = "x_saida"
    /\ \E ok \in BOOLEAN :
          /\ Desfecho(ok)
          /\ IF ok THEN Commit(tx) ELSE Rollback
    /\ pc' = "idle"
    /\ UNCHANGED <<divergencias, modo, limite, i, op_id, div_id, rowcount, erro,
                   resultado, hist, chamador, req, run>>
    /\ UNCHANGED <<det, con, aviso, par>>

\* rejeitar_divergencia, lines 383-415: atualizar_status_divergencia(id,
\* 'REJECTED', processado_por, motivo_rejeicao) with valor_aplicado left None
Rejeitar ==
    /\ pc = "idle"
    /\ "rejeitar" \notin req.feitos
    /\ \E id \in 1..(Len(db.divs) + 1), ok \in BOOLEAN :
          /\ ok \/ falhas < MaxFalhas
          /\ falhas' = IF ok THEN falhas ELSE falhas + 1
          /\ IF ok
             THEN Commit(UpdateDivergencia(db, id, "REJECTED", SemValor, "motivo"))
             ELSE Rollback
    /\ req' = [req EXCEPT !.feitos = @ \cup {"rejeitar"}]
    /\ UNCHANGED <<pc, divergencias, modo, limite, i, op_id, div_id, rowcount, erro,
                   resultado, hist, chamador, run>>
    /\ UNCHANGED <<det, con, aviso, par>>

\* aprovar_correcoes, lines 272-284: the request arrives
Aprovar ==
    /\ pc = "idle"
    /\ "aprovar" \notin req.feitos
    /\ \E ids \in PedidosDeIds, v \in ValoresCustomizados :
          req' = [req EXCEPT !.feitos = @ \cup {"aprovar"}, !.ids = ids, !.j = 1,
                             !.valor_customizado = v, !.linha = NULL,
                             !.resultados = <<>>]
    /\ tx' = db
    /\ abortada' = FALSE
    /\ pc' = "v_select"
    /\ op_id' = 0
    /\ UNCHANGED <<db, divergencias, modo, limite, i, div_id, rowcount, erro,
                   resultado, falhas, hist, chamador, run>>
    /\ UNCHANGED <<det, con, aviso, par>>

\* the id the approve loop is at
IdAtual == req.ids[req.j]

\* lines 311-315: valor_aplicar
ValorAplicar ==
    IF req.valor_customizado # SemValor THEN req.valor_customizado
    ELSE req.linha.valor_sugerido

\* lines 300-306 and 352-358: this id ends in "erro"; on to the next id
AprovarErro(r) ==
    [r EXCEPT !.resultados = Append(@, "erro"), !.j = @ + 1, !.linha = NULL]

\* lines 346-350: this id ends in "aprovado"; on to the next id
AprovarOk(r) ==
    [r EXCEPT !.resultados = Append(@, "aprovado"), !.j = @ + 1, !.linha = NULL]

\* lines 289-308: SELECT ... WHERE id = %s AND status_processamento = 'DETECTED'
AprovarSelect ==
    /\ pc = "v_select"
    /\ req.j <= Len(req.ids)
    /\ \E ok \in BOOLEAN :
          /\ Desfecho(ok)
          /\ IF ~ok
             THEN /\ abortada' = TRUE
                  /\ req' = AprovarErro(req)
                  /\ pc' = "v_select"
             ELSE /\ UNCHANGED abortada
                  /\ IF /\ IdAtual \in DOMAIN tx.divs
                        /\ tx.divs[IdAtual].status_processamento = "DETECTED"
                     THEN /\ req' = [req EXCEPT !.linha = tx.divs[IdAtual]]
                          /\ pc' = "v_iniciar"
                     ELSE /\ req' = AprovarErro(req)
                          /\ pc' = "v_select"
    /\ UNCHANGED <<db, tx, divergencias, modo, limite, i, op_id, div_id, rowcount,
                   erro, resultado, hist, chamador, run>>
    /\ UNCHANGED <<det, con, aviso, par>>

\* lines 318-324: audit.iniciar_operacao('UPDATE', ..., origem='API')
AprovarIniciarOperacao ==
    /\ pc = "v_iniciar"
    /\ \E ok \in BOOLEAN :
          /\ Desfecho(ok)
          /\ IF ok
             THEN /\ Commit(InsertOperacao(tx, "UPDATE", "API"))
                  /\ op_id' = Len(tx.ops) + 1
                  /\ hist' = [hist EXCEPT !.fin = Append(@, 0), !.alvo = Append(@, SemAlvo)]
                  /\ pc' = "v_update"
                  /\ UNCHANGED req
             ELSE /\ Rollback
                  /\ req' = AprovarErro(req)
                  /\ pc' = "v_select"
                  /\ UNCHANGED <<op_id, hist>>
    /\ UNCHANGED <<divergencias, modo, limite, i, div_id, rowcount, erro, resultado,
                   chamador, run>>
    /\ UNCHANGED <<det, con, aviso, par>>

\* lines 327-334: UPDATE byd.controladoria SET {campo} = %s WHERE idnfsexterno = %s;
\* an exception goes to the except of line 352, which does not roll back
AprovarUpdate ==
    /\ pc = "v_update"
    /\ \E ok \in BOOLEAN :
          /\ Desfecho(ok)
          /\ IF ok
             THEN /\ tx' = UpdateControladoria(tx, req.linha.campo_afetado, ValorAplicar,
                                               req.linha.idnfsexterno)
                  /\ hist' = [hist EXCEPT !.alvo[op_id] =
                                  [idnfsexterno |-> req.linha.idnfsexterno,
                                   campo |-> req.linha.campo_afetado,
                                   linhas |-> Cardinality(Linhas(tx, req.linha.idnfsexterno)),
                                   feito |-> TRUE]]
                  /\ pc' = "v_atualizar"
                  /\ UNCHANGED <<abortada, req>>
             ELSE /\ abortada' = TRUE
                  /\ req' = AprovarErro(req)
                  /\ pc' = "v_select"
                  /\ UNCHANGED <<tx, hist>>
    /\ UNCHANGED <<db, divergencias, modo, limite, i, op_id, div_id, rowcount, erro,
                   resultado, chamador, run>>
    /\ UNCHANGED <<det, con, aviso, par>>

\* lines 337-342: audit.atualizar_status_divergencia(div_id, 'APPROVED', valor_aplicar, ...)
AprovarAtualizarStatus ==
    /\ pc = "v_atualizar"
    /\ \E ok \in BOOLEAN :
          /\ Desfecho(ok)
          /\ IF ok
             THEN /\ Commit(UpdateDivergencia(tx, IdAtual, "APPROVED", ValorAplicar, NULL))
                  /\ pc' = "v_finalizar"
                  /\ UNCHANGED req
             ELSE /\ Rollback
                  /\ req' = AprovarErro(req)
                  /\ pc' = "v_select"
    /\ UNCHANGED <<divergencias, modo, limite, i, op_id, div_id, rowcount, erro,
                   resultado, hist, chamador, run>>
    /\ UNCHANGED <<det, con, aviso, par>>

\* lines 344-350: audit.finalizar_operacao(op_id, status='SUCCESS')
AprovarFinalizarOperacao ==
    /\ pc = "v_finalizar"
    /\ \E ok \in BOOLEAN :
          /\ Desfecho(ok)
          /\ IF ok
             THEN /\ Commit(UpdateOperacao(tx, op_id, "SUCCESS", 0, NULL))
                  /\ req' = AprovarOk(req)
             ELSE /\ Rollback
                  /\ req' = AprovarErro(req)
    /\ hist' = ContaFin(hist, op_id)
    /\ pc' = "v_select"
    /\ UNCHANGED <<divergencias, modo, limite, i, op_id, div_id, rowcount, erro,
                   resultado, chamador, run>>
    /\ UNCHANGED <<det, con, aviso, par>>

\* lines 360-368 and conn.py 86-93: conn.commit() after the loop (on an aborted
\* transaction the server answers it with a rollback), return, commit, close
AprovarSaida ==
    /\ pc = "v_select"
    /\ req.j > Len(req.ids)
    /\ \E ok \in BOOLEAN :
          /\ Desfecho(ok)
          /\ IF ok THEN Commit(tx) ELSE Rollback
    /\ pc' = "idle"
    /\ UNCHANGED <<divergencias, modo, limite, i, op_id, div_id, rowcount, erro,
                   resultado, hist, chamador, req, run>>
    /\ UNCHANGED <<det, con, aviso, par>>

NextApi ==
    \/ Processar
    \/ ProcessarSaida
    \/ Retornar
    \/ AutoIniciarOperacao
    \/ AutoSelect
    \/ AutoUpdate
    \/ AutoRegistrarDivergencia
    \/ AutoAtualizarStatus
    \/ AutoFinalizarOperacao
    \/ AutoCommit
    \/ AutoExcept
    \/ PendIniciarOperacao
    \/ PendRegistrarDivergencia
    \/ PendFinalizarOperacao
    \/ PendCommit
    \/ Rejeitar
    \/ Aprovar
    \/ AprovarSelect
    \/ AprovarIniciarOperacao
    \/ AprovarUpdate
    \/ AprovarAtualizarStatus
    \/ AprovarFinalizarOperacao
    \/ AprovarSaida

SpecApi == Init /\ [][NextApi]_vars

----------------------------------------------------------------------------
(* DailyProcessor.executar (automation/daily_processor.py 91-280): one run  *)
(* of detect, apply, report, notify inside one processing session.          *)

\* iniciar_sessao_processamento, lines 366-384: INSERT ... 'RUNNING' ... RETURNING id
InsertSessao(s, tipo) ==
    [s EXCEPT !.sess = Append(@, [tipo_sessao |-> tipo, status |-> "RUNNING",
                                  fim_processamento |-> 0,
                                  divergencias_detectadas |-> 0,
                                  correcoes_aplicadas |-> 0,
                                  correcoes_pendentes |-> 0,
                                  erros_encontrados |-> 0])]

\* variant: the errors of the run are not stored
UpdateSessaoSemErros(s, id, status, r) ==
    IF id \in DOMAIN s.sess
    THEN [s EXCEPT !.sess[id] = [@ EXCEPT !.status = status,
                                          !.fim_processamento = @ + 1,
                                          !.divergencias_detectadas = r.total_divergencias,
                                          !.correcoes_aplicadas = r.corrigidas_automaticamente,
                                          !.correcoes_pendentes = r.pendentes_aprovacao,
                                          !.erros_encontrados = 0]]
    ELSE s

\* finalizar_sessao_processamento, lines 412-441: UPDATE ... WHERE id = %s;
\* fim_processamento is the ordinal of the finalization that stamped it (0: NULL)
UpdateSessao(s, id, status, r) ==
    IF id \in DOMAIN s.sess
    THEN [s EXCEPT !.sess[id] = [@ EXCEPT !.status = status,
                                          !.fim_processamento = @ + 1,
                                          !.divergencias_detectadas = r.total_divergencias,
                                          !.correcoes_aplicadas = r.corrigidas_automaticamente,
                                          !.correcoes_pendentes = r.pendentes_aprovacao,
                                          !.erros_encontrados = r.erros]]
    ELSE s

\* lines 227-230: status_final
StatusFinal(r) == IF r.erros = 0 THEN "COMPLETED" ELSE "PARTIAL"

\* lines 102-112 and conn.py 84: the run starts and opens its connection
Executar ==
    /\ pc = "idle"
    /\ \E m \in Modos : modo' = m
    /\ \E ok \in BOOLEAN :
          /\ ok \/ falhas < MaxFalhas
          /\ falhas' = IF ok THEN falhas ELSE falhas + 1
          /\ pc' = IF ok THEN "e_sessao" ELSE "e_except"
          /\ run' = IF ok THEN ExecVazio ELSE [ExecVazio EXCEPT !.fatal = "conexao"]
    /\ tx' = db
    /\ abortada' = FALSE
    /\ chamador' = "executar"
    /\ UNCHANGED <<db, divergencias, limite, i, op_id, div_id, rowcount, erro,
                   resultado, hist, req>>
    /\ UNCHANGED <<det, con, aviso, par>>

\* lines 115-122: audit.iniciar_sessao_processamento(...)
ExecIniciarSessao ==
    /\ pc = "e_sessao"
    /\ \E ok \in BOOLEAN :
          /\ Desfecho(ok)
          /\ IF ok
             THEN /\ Commit(InsertSessao(tx, IF modo = "auto" THEN "DAILY_AUTO"
                                             ELSE "MANUAL_RUN"))
                  /\ run' = [run EXCEPT !.trilha = Append(@, "sessao"), !.sessao_id = Len(tx.sess) + 1]
                  /\ pc' = "e_detectar"
             ELSE /\ Rollback
                  /\ pc' = "e_except"
                  /\ run' = [run EXCEPT !.trilha = Append(@, "sessao"), !.fatal = "sessao"]
    /\ UNCHANGED <<divergencias, modo, limite, i, op_id, div_id, rowcount, erro,
                   resultado, hist, chamador, req>>
    /\ UNCHANGED <<det, con, aviso, par>>

\* lines 131-162: processor.detectar_divergencias(...), whose scans re-raise
\* what they catch, then the call of processor.aplicar_correcoes(...)
ExecDetectar ==
    /\ pc = "e_detectar"
    /\ \E ok \in BOOLEAN :
          /\ Desfecho(ok)
          /\ IF ok
             THEN /\ \E lista \in ListasDe(Detectaveis, MaxDetectadas) :
                        /\ divergencias' = lista
                        /\ resultado' = [ResultadoVazio EXCEPT
                                           !.total_divergencias = Len(lista)]
                        /\ run' = [run EXCEPT !.trilha = @ \o <<"deteccao", "correcao">>,
                                              !.total_divergencias = Len(lista),
                                              !.etapas = Append(@, "deteccao")]
                  /\ limite' = LimiteAutoPadrao
                  /\ i' = 1
                  /\ hist' = NovaChamada(hist)
                  /\ pc' = "loop"
                  /\ UNCHANGED <<db, tx, abortada>>
             ELSE /\ Rollback
                  /\ pc' = "e_except"
                  /\ run' = [run EXCEPT !.trilha = Append(@, "deteccao"), !.fatal = "deteccao"]
                  /\ UNCHANGED <<divergencias, resultado, limite, i, hist>>
    /\ UNCHANGED <<modo, op_id, div_id, rowcount, erro, chamador, req>>
    /\ UNCHANGED <<det, con, aviso, par>>

\* the report stage with its try/except taken away
ExecRelatorioFatal ==
    /\ pc = "e_relatorio"
    /\ IF Len(divergencias) > 0
       THEN \E ok \in BOOLEAN :
               /\ ok \/ falhas < MaxFalhas
               /\ falhas' = IF ok THEN falhas ELSE falhas + 1
               /\ run' = IF ok
                         THEN [run EXCEPT !.trilha = Append(@, "relatorio"), !.etapas = @ \o <<"correcao", "relatorio">>]
                         ELSE [run EXCEPT !.trilha = Append(@, "relatorio"), !.etapas = Append(@, "correcao"),
                                          !.erros = Append(@, "Erro ao gerar relatorio"),
                                          !.fatal = "relatorio"]
               /\ pc' = IF ok THEN "e_notificar" ELSE "e_except"
       ELSE /\ run' = [run EXCEPT !.trilha = Append(@, "relatorio"), !.etapas = Append(@, "correcao")]
            /\ pc' = "e_notificar"
            /\ UNCHANGED falhas
    /\ UNCHANGED <<db, tx, abortada, divergencias, modo, limite, i, op_id, div_id,
                   rowcount, erro, resultado, hist, chamador, req>>
    /\ UNCHANGED <<det, con, aviso, par>>

\* lines 173-189: the report, only for a non-empty list; its error is recorded
ExecRelatorio ==
    /\ pc = "e_relatorio"
    /\ IF Len(divergencias) > 0
       THEN \E ok \in BOOLEAN :
               /\ ok \/ falhas < MaxFalhas
               /\ falhas' = IF ok THEN falhas ELSE falhas + 1
               /\ run' = IF ok
                         THEN [run EXCEPT !.trilha = Append(@, "relatorio"), !.etapas = @ \o <<"correcao", "relatorio">>]
                         ELSE [run EXCEPT !.trilha = Append(@, "relatorio"), !.etapas = Append(@, "correcao"),
                                          !.erros = Append(@, "Erro ao gerar relatorio")]
       ELSE /\ run' = [run EXCEPT !.trilha = Append(@, "relatorio"), !.etapas = Append(@, "correcao")]
            /\ UNCHANGED falhas
    /\ pc' = "e_notificar"
    /\ UNCHANGED <<db, tx, abortada, divergencias, modo, limite, i, op_id, div_id,
                   rowcount, erro, resultado, hist, chamador, req>>
    /\ UNCHANGED <<det, con, aviso, par>>

\* the alert stage that starts detection again when the alert raises
ExecNotificarRepete ==
    /\ pc = "e_notificar"
    /\ IF run.total_divergencias > 0
       THEN \E r \in {"enviado", "nao_enviado", "erro"} :
               /\ r # "erro" \/ falhas < MaxFalhas
               /\ falhas' = IF r = "erro" THEN falhas + 1 ELSE falhas
               /\ run' = CASE r = "enviado" ->
                                [run EXCEPT !.trilha = Append(@, "notificacao"), !.alerta_div = @ + 1,
                                            !.etapas = Append(@, "notificacao")]
                           [] r = "nao_enviado" ->
                                [run EXCEPT !.trilha = Append(@, "notificacao"), !.etapas = Append(@, "notificacao")]
                           [] r = "erro" ->
                                [run EXCEPT !.trilha = Append(@, "notificacao"), !.erros = Append(@, "Erro ao enviar notificacao")]
       ELSE /\ run' = [run EXCEPT !.trilha = Append(@, "notificacao")]
            /\ UNCHANGED falhas
    /\ pc' = IF run'.erros # run.erros THEN "e_detectar" ELSE "e_finalizar"
    /\ UNCHANGED <<db, tx, abortada, divergencias, modo, limite, i, op_id, div_id,
                   rowcount, erro, resultado, hist, chamador, req>>
    /\ UNCHANGED <<det, con, aviso, par>>

\* lines 196-213: the alert, only when something was detected; it is sent, or
\* not sent (no SMTP, no recipients), or it raises and the error is recorded
ExecNotificar ==
    /\ pc = "e_notificar"
    /\ IF run.total_divergencias > 0
       THEN \E r \in {"enviado", "nao_enviado", "erro"} :
               /\ r # "erro" \/ falhas < MaxFalhas
               /\ falhas' = IF r = "erro" THEN falhas + 1 ELSE falhas
               /\ run' = CASE r = "enviado" ->
                                [run EXCEPT !.trilha = Append(@, "notificacao"), !.alerta_div = @ + 1,
                                            !.etapas = Append(@, "notificacao")]
                           [] r = "nao_enviado" ->
                                [run EXCEPT !.trilha = Append(@, "notificacao"), !.etapas = Append(@, "notificacao")]
                           [] r = "erro" ->
                                [run EXCEPT !.trilha = Append(@, "notificacao"), !.erros = Append(@, "Erro ao enviar notificacao")]
       ELSE /\ run' = [run EXCEPT !.trilha = Append(@, "notificacao")]
            /\ UNCHANGED falhas
    /\ pc' = "e_finalizar"
    /\ UNCHANGED <<db, tx, abortada, divergencias, modo, limite, i, op_id, div_id,
                   rowcount, erro, resultado, hist, chamador, req>>
    /\ UNCHANGED <<det, con, aviso, par>>

\* lines 216-256: audit.finalizar_sessao_processamento(sessao_id, status_final,
\* metricas, ...), then resultado is rebuilt with status_final
ExecFinalizarSessao ==
    /\ pc = "e_finalizar"
    /\ \E ok \in BOOLEAN :
          /\ Desfecho(ok)
          /\ IF ok
             THEN /\ Commit(UpdateSessao(tx, run.sessao_id, StatusFinal(resultado),
                                         resultado))
                  /\ run' = [run EXCEPT !.trilha = Append(@, "finalizacao"), !.fim_sessao = @ + 1,
                                        !.status = StatusFinal(resultado)]
                  /\ pc' = "e_saida"
             ELSE /\ Rollback
                  /\ run' = [run EXCEPT !.trilha = Append(@, "finalizacao"), !.fim_sessao = @ + 1,
                                        !.fatal = "finalizar_sessao"]
                  /\ pc' = "e_except"
    /\ UNCHANGED <<divergencias, modo, limite, i, op_id, div_id, rowcount, erro,
                   resultado, hist, chamador, req>>
    /\ UNCHANGED <<det, con, aviso, par>>

\* line 263 and conn.py 86-93: return inside the with block; db_connection
\* commits and closes, and what its commit raises reaches the except of line 265
ExecSaida ==
    /\ pc = "e_saida"
    /\ \E ok \in BOOLEAN :
          /\ Desfecho(ok)
          /\ IF ok
             THEN /\ Commit(tx)
                  /\ pc' = "e_ret"
                  /\ UNCHANGED run
             ELSE /\ Rollback
                  /\ pc' = "e_except"
                  /\ run' = [run EXCEPT !.fatal = "commit"]
    /\ UNCHANGED <<divergencias, modo, limite, i, op_id, div_id, rowcount, erro,
                   resultado, hist, chamador, req>>
    /\ UNCHANGED <<det, con, aviso, par>>

\* the except block without its alert
ExecExceptSemAlerta ==
    /\ pc = "e_except"
    /\ run' = [run EXCEPT !.status = "FAILED", !.erros = Append(@, "excecao")]
    /\ pc' = "e_ret"
    /\ UNCHANGED <<db, tx, abortada, divergencias, modo, limite, i, op_id, div_id,
                   rowcount, erro, resultado, falhas, hist, chamador, req>>
    /\ UNCHANGED <<det, con, aviso, par>>

\* lines 265-280: one call of enviar_alerta_falha_critica, which sends, or
\* returns False, or raises into the bare except; then status FAILED and
\* str(e) go into resultado, which is returned
ExecExcept ==
    /\ pc = "e_except"
    /\ \E r \in {"enviado", "nao_enviado", "erro"} :
          run' = [run EXCEPT !.status = "FAILED",
                             !.erros = Append(@, "excecao"),
                             !.alerta_critico = @ + 1,
                             !.critico = r]
    /\ pc' = "e_ret"
    /\ UNCHANGED <<db, tx, abortada, divergencias, modo, limite, i, op_id, div_id,
                   rowcount, erro, resultado, falhas, hist, chamador, req>>
    /\ UNCHANGED <<det, con, aviso, par>>

NextDiario ==
    \/ Executar
    \/ ExecIniciarSessao
    \/ ExecDetectar
    \/ Retornar
    \/ AutoIniciarOperacao
    \/ AutoSelect
    \/ AutoUpdate
    \/ AutoRegistrarDivergencia
    \/ AutoAtualizarStatus
    \/ AutoFinalizarOperacao
    \/ AutoCommit
    \/ AutoExcept
    \/ PendIniciarOperacao
    \/ PendRegistrarDivergencia
    \/ PendFinalizarOperacao
    \/ PendCommit
    \/ ExecRelatorio
    \/ ExecNotificar
    \/ ExecFinalizarSessao
    \/ ExecSaida
    \/ ExecExcept

SpecDiario == Init /\ [][NextDiario]_vars

----------------------------------------------------------------------------
(* float(row[k]) and the float subtraction of the trade marketing scan.     *)
(* Amounts are integers of centavos.  A double in [0, 4) is kept exactly,   *)
(* as its bits from weight 2^1 down to weight 2^-59 (the unit in the last   *)
(* place of 0.01), most significant first; IEEE 754 binary64 keeps 53       *)
(* significant bits and rounds to nearest, ties to even.                    *)

\* bits kept for a value: 2 above the binary point, 59 below
Largura == 61

\* significant bits of a binary64
Mantissa == 53

\* the centavos the bit representation covers: 0.00 .. 3.99
NaGrade(c) == c >= 0 /\ c < 400

\* remainder of c/100 after k binary digits of the fraction
RECURSIVE Resto(_, _)
Resto(c, k) == IF k = 0 THEN c % 100 ELSE (2 * Resto(c, k - 1)) % 100

\* the first k binary digits of the fraction r/100
RECURSIVE Fracao(_, _)
Fracao(r, k) ==
    IF k = 0 THEN <<>>
    ELSE <<IF 2 * r >= 100 THEN 1 ELSE 0>> \o Fracao((2 * r) % 100, k - 1)

\* c/100 written in binary and cut after 59 fraction bits
Expansao(c) ==
    <<(c \div 100) \div 2, (c \div 100) % 2>> \o Fracao(c % 100, Largura - 2)

\* position of the leading 1 (Largura + 1: the value is zero)
Lider(f) ==
    IF \A p \in 1..Largura : f[p] = 0 THEN Largura + 1
    ELSE CHOOSE p \in 1..Largura : f[p] = 1 /\ \A q \in 1..(p - 1) : f[q] = 0

\* f with the bits after position u cleared
Corte(f, u) == [p \in 1..Largura |-> IF p > u THEN 0 ELSE f[p]]

\* f plus one unit at position u (no carry out of position 1 for values < 4)
Incrementa(f, u) ==
    [p \in 1..Largura |->
        IF p > u THEN f[p]
        ELSE IF \A q \in (p + 1)..u : f[q] = 1 THEN 1 - f[p] ELSE f[p]]

\* f rounded at position u, its last kept bit: up when the first dropped bit
\* is 1 and either something follows it or the last kept bit is odd
ArredondaEm(f, g, s, u) ==
    IF u > Largura THEN f
    ELSE IF u = Largura
         THEN IF g = 1 /\ (s \/ f[u] = 1) THEN Incrementa(f, u) ELSE f
         ELSE IF /\ f[u + 1] = 1
                 /\ \/ \E q \in (u + 2)..Largura : f[q] = 1
                    \/ g = 1
                    \/ s
                    \/ f[u] = 1
              THEN Incrementa(Corte(f, u), u)
              ELSE Corte(f, u)

\* round to 53 significant bits, nearest, ties to even; g is the first bit
\* beyond position Largura and s tells whether anything non-zero follows g
Arredonda(f, g, s) == ArredondaEm(f, g, s, Lider(f) + Mantissa - 1)

\* float(Decimal(c) / 100): the binary64 nearest to c centavos
Float(c) ==
    Arredonda(Expansao(c),
              IF 2 * Resto(c, Largura - 2) >= 100 THEN 1 ELSE 0,
              (2 * Resto(c, Largura - 2)) % 100 # 0)

\* a > b, a >= b on the kept bits
Maior(a, b) ==
    \E p \in 1..Largura : a[p] > b[p] /\ \A q \in 1..(p - 1) : a[q] = b[q]

\* the subtraction at position p borrows from position p - 1: below p, b is
\* the larger
Empresta(a, b, p) ==
    \E q \in p..Largura : a[q] < b[q] /\ \A r \in p..(q - 1) : a[r] = b[r]

\* a - b for a >= b, exact
Diferenca(a, b) ==
    [p \in 1..Largura |->
        (2 + a[p] - b[p] - (IF Empresta(a, b, p + 1) THEN 1 ELSE 0)) % 2]

\* a - b for a >= b, rounded as the float subtraction rounds
Subtrai(a, b) == Arredonda(Diferenca(a, b), 0, FALSE)

----------------------------------------------------------------------------
(* detectar_divergencias (divergence_processor.py 101-404): the three rule  *)
(* scans over byd.bonus_view, their concatenation and the confidence filter *)
(* Amounts of the view are integers of centavos; dates are AAAAMM.          *)

\* the fixed window of the pending-verification scan: '2025-08-01' .. '2026-12-31'
JanelaInicio == 202508
JanelaFim == 202612

\* the outlier bound of the value scan, 100000, in centavos
LimiteOutlier == 10000000

\* one row of byd.bonus_view
Linha(id, apont, util, vb, tr, bd, tmd, dta) ==
    [idnfsexterno |-> id, apontamento |-> apont, bonus_utilizado |-> util,
     valor_bonus |-> vb, trade |-> tr, bonus_dpto |-> bd, trade_mkt_dpto |-> tmd,
     dta_processamento |-> dta]

Revisar == "Revisar Divergencia!"

Pendente == "PENDENTE VERIFICACAO"

\* the rows the view is filled from
LinhasVisao ==
    { Linha("L1", Revisar, "SIM", 5000, 0, 0, 0, 202509),
      Linha("L2", Revisar, "SIM", 0, 200, 0, 0, 202507),
      Linha("L3", Revisar, Pendente, 100, 100, SemValor, SemValor, 202509),
      Linha("L4", Revisar, "SIM", 100, 100, 100, 100, 202509),
      Linha("L5", Revisar, "SIM", 100, 0, 101, 0, 202509),
      Linha("L6", Revisar, "SIM", 1, 0, 2, 0, 202701),
      Linha("L7", "OK", "SIM", 5000, 0, 0, 0, 202509),
      Linha("L8", "OK", Pendente, 0, 0, 0, 0, 202507),
      Linha("L9", "OK", Pendente, 0, 0, 0, 0, 202509),
      Linha("L10", "OK", "SIM", 0, -100, 0, -100, 202509),
      Linha("L11", "OK", "SIM", 10000001, -100, 10000001, -100, 202509),
      Linha("L12", "OK", "SIM", 0, 0, -100, 0, 202509),
      Linha("L13", "OK", "SIM", 0, 0, 0, -100, 202509) }

\* float(row[k]) if row[k] else 0.0, and COALESCE(CAST(x AS NUMERIC), 0)
Num(v) == IF v = SemValor THEN 0 ELSE v

\* the lower amounts of the pairs of amounts one centavo apart, both on the
\* grid of the bit representation, that the rows of the view hold
BasesDeUmCentavo ==
    { c \in 0..398 :
        \E r \in LinhasVisao :
           \/ {Num(r.bonus_dpto), Num(r.valor_bonus)} = {c, c + 1}
           \/ {Num(r.trade_mkt_dpto), Num(r.trade)} = {c, c + 1} }

\* for those pairs: abs(float(c + 1) - float(c)) > 0.01
ExcedeUmCentavo ==
    [c \in BasesDeUmCentavo |-> Maior(Subtrai(Float(c + 1), Float(c)), Float(1))]

\* abs(x - y) > 0.01 on floats, x and y given in centavos.  Off the 1-centavo
\* case rounding cannot change the answer: equal amounts give 0.0, amounts 2
\* or more centavos apart give a float difference above 0.01.
AbsDifExcede(x, y) ==
    LET maior == IF x >= y THEN x ELSE y
        menor == IF x >= y THEN y ELSE x
    IN  IF maior - menor = 1 /\ NaGrade(maior) /\ NaGrade(menor)
        THEN IF menor \in BasesDeUmCentavo
             THEN ExcedeUmCentavo[menor]
             ELSE Maior(Subtrai(Float(maior), Float(menor)), Float(1))
        ELSE maior - menor > 1

\* arguments of the call: the period (0: None), the kind filter, the threshold
Periodos == { <<0, 0>>, <<202508, 202612>> }

TiposFiltro == { NULL, "TRADE_MARKETING_BONUS" }

LimitesConfianca == { 50, LimiteConfiancaPadrao, 95 }

\* a Divergencia with its regras_violadas
Detectada(nf, tipo, campo, atual, esperado, conf, regras) ==
    [idnfsexterno |-> nf, tipo |-> tipo, campo_afetado |-> campo,
     valor_atual |-> atual, valor_esperado |-> esperado, confianca |-> conf,
     regras_violadas |-> regras]

\* the concatenation of the sequences of qq, in order
RECURSIVE Achata(_)
Achata(qq) == IF qq = <<>> THEN <<>> ELSE Head(qq) \o Achata(Tail(qq))

\* lines 192-194, 361-363: AND dta_processamento BETWEEN %s AND %s, only
\* when both dates were given
NoPeriodo(r, ini, fim) ==
    (ini # 0 /\ fim # 0) =>
        (r.dta_processamento >= ini /\ r.dta_processamento <= fim)

\* the orders ORDER BY dta_processamento DESC may return the rows q in
Ordenacoes(q) ==
    { [k \in 1..Len(q) |-> q[f[k]]] :
        f \in { g \in [1..Len(q) -> 1..Len(q)] :
                  /\ \A a, b \in 1..Len(q) : a # b => g[a] # g[b]
                  /\ \A a, b \in 1..Len(q) :
                        a < b => q[g[a]].dta_processamento >= q[g[b]].dta_processamento } }

\* lines 176-199: the rows the trade marketing query selects
SelecionaTrade(r) ==
    r.apontamento = Revisar /\ NoPeriodo(r, det.data_inicio, det.data_fim)

\* lines 203-246: what the trade marketing loop emits for one row
RegraTrade(r) ==
    (IF AbsDifExcede(Num(r.bonus_dpto), Num(r.valor_bonus))
     THEN <<Detectada(r.idnfsexterno, "TRADE_MARKETING_BONUS", "bonus_dpto",
                      Num(r.bonus_dpto), Num(r.valor_bonus), 95,
                      <<"BONUS_DPTO_DIVERGENTE">>)>>
     ELSE <<>>)
    \o
    (IF AbsDifExcede(Num(r.trade_mkt_dpto), Num(r.trade))
     THEN <<Detectada(r.idnfsexterno, "TRADE_MARKETING_TRADE", "trade_mkt_dpto",
                      Num(r.trade_mkt_dpto), Num(r.trade), 95,
                      <<"TRADE_MKT_DPTO_DIVERGENTE">>)>>
     ELSE <<>>)

\* for row in rows: what the loop appends, in the order of the rows
DivergenciasTrade(rows) == Achata([k \in 1..Len(rows) |-> RegraTrade(rows[k])])

\* lines 268-279: the rows the pending-verification query selects
SelecionaPendente(r) ==
    /\ r.bonus_utilizado = Pendente
    /\ r.dta_processamento >= JanelaInicio
    /\ r.dta_processamento <= JanelaFim

\* lines 285-306: what the pending-verification loop emits for one row
\* (valor_atual is the sentinel text, valor_esperado None)
RegraPendente(r) ==
    <<Detectada(r.idnfsexterno, "PENDENTE_VERIFICACAO", "bonus_utilizado",
                SemValor, SemValor, 50, <<"VERIFICACAO_PENDENTE_PROLONGADA">>)>>

\* for row in rows: what the loop appends, in the order of the rows
DivergenciasPendentes(rows) == Achata([k \in 1..Len(rows) |-> RegraPendente(rows[k])])

\* lines 340-363: the rows the value query selects
SelecionaValores(r) ==
    /\ \/ Num(r.trade) < 0
       \/ Num(r.valor_bonus) < 0
       \/ Num(r.bonus_dpto) < 0
       \/ Num(r.trade) > LimiteOutlier
       \/ Num(r.valor_bonus) > LimiteOutlier
    /\ NoPeriodo(r, det.data_inicio, det.data_fim)

\* lines 370-381: regras_violadas of one row
RegrasVioladas(r) ==
    (IF Num(r.trade) < 0 THEN <<"TRADE_VALOR_NEGATIVO">> ELSE <<>>)
    \o (IF Num(r.valor_bonus) < 0 THEN <<"BONUS_VALOR_NEGATIVO">> ELSE <<>>)
    \o (IF Num(r.trade) > LimiteOutlier THEN <<"TRADE_VALOR_OUTLIER">> ELSE <<>>)
    \o (IF Num(r.valor_bonus) > LimiteOutlier THEN <<"BONUS_VALOR_OUTLIER">> ELSE <<>>)

\* lines 383-397: what the value loop emits for one row
RegraValores(r) ==
    IF RegrasVioladas(r) # <<>>
    THEN <<Detectada(r.idnfsexterno, "VALIDACAO_VALOR", "valores_bonus",
                     SemValor, SemValor, 70, RegrasVioladas(r))>>
    ELSE <<>>

\* for row in rows: what the loop appends, in the order of the rows
DivergenciasValores(rows) == Achata([k \in 1..Len(rows) |-> RegraValores(rows[k])])

\* the filter of lines 152-155 with the boundary left out
PassaFiltroEstrito(d) == d.confianca > det.limite_confianca

\* lines 152-155: d.confianca >= limite_confianca
PassaFiltro(d) == d.confianca >= det.limite_confianca

\* lines 101-129: the call, on a view of some rows
DetectarDivergencias ==
    /\ pc = "idle"
    /\ \E linhas \in ListasDe(LinhasVisao, MaxLinhas), per \in Periodos,
          t \in TiposFiltro, l \in LimitesConfianca :
          det' = [DetVazio EXCEPT !.visao = linhas,
                                  !.data_inicio = per[1],
                                  !.data_fim = per[2],
                                  !.tipo_divergencia = t,
                                  !.limite_confianca = l]
    /\ pc' = "d_trade"
    /\ UNCHANGED <<db, tx, abortada, divergencias, modo, limite, i, op_id, div_id,
                   rowcount, erro, resultado, falhas, hist, chamador, req, run, con, aviso, par>>

\* lines 131-135: _detectar_divergencias_trade_marketing and extend; a query
\* that fails is logged and re-raised, and detectar_divergencias has no handler
DetTradeMarketing ==
    /\ pc = "d_trade"
    /\ \E ok \in BOOLEAN :
          /\ Desfecho(ok)
          /\ IF ok
             THEN /\ \E rows \in Ordenacoes(SelectSeq(det.visao, SelecionaTrade)) :
                        det' = [det EXCEPT !.rows_trade = rows,
                                           !.divergencias_trade = DivergenciasTrade(rows),
                                           !.divergencias = @ \o DivergenciasTrade(rows),
                                           !.feitas = Append(@, "trade")]
                  /\ pc' = "d_pendentes"
                  /\ UNCHANGED abortada
             ELSE /\ det' = [det EXCEPT !.feitas = Append(@, "trade")]
                  /\ pc' = "d_raise"
                  /\ abortada' = TRUE
    /\ UNCHANGED <<db, tx, divergencias, modo, limite, i, op_id, div_id,
                   rowcount, erro, resultado, hist, chamador, req, run, con, aviso, par>>

\* _detectar_pendentes_verificacao with its failure logged and swallowed
\* instead of re-raised
DetPendentesEngole ==
    /\ pc = "d_pendentes"
    /\ \E ok \in BOOLEAN :
          /\ Desfecho(ok)
          /\ LET rows == IF ok THEN SelectSeq(det.visao, SelecionaPendente) ELSE <<>>
             IN  det' = [det EXCEPT !.rows_pendentes = rows,
                                    !.divergencias_pendentes = DivergenciasPendentes(rows),
                                    !.divergencias = @ \o DivergenciasPendentes(rows),
                                    !.feitas = Append(@, "pendentes")]
          /\ pc' = "d_valores"
          /\ UNCHANGED abortada
    /\ UNCHANGED <<db, tx, divergencias, modo, limite, i, op_id, div_id,
                   rowcount, erro, resultado, hist, chamador, req, run, con, aviso, par>>

\* lines 137-141: _detectar_pendentes_verificacao and extend
DetPendentes ==
    /\ pc = "d_pendentes"
    /\ \E ok \in BOOLEAN :
          /\ Desfecho(ok)
          /\ IF ok
             THEN /\ LET rows == SelectSeq(det.visao, SelecionaPendente)
                     IN  det' = [det EXCEPT !.rows_pendentes = rows,
                                            !.divergencias_pendentes = DivergenciasPendentes(rows),
                                            !.divergencias = @ \o DivergenciasPendentes(rows),
                                            !.feitas = Append(@, "pendentes")]
                  /\ pc' = "d_valores"
                  /\ UNCHANGED abortada
             ELSE /\ det' = [det EXCEPT !.feitas = Append(@, "pendentes")]
                  /\ pc' = "d_raise"
                  /\ abortada' = TRUE
    /\ UNCHANGED <<db, tx, divergencias, modo, limite, i, op_id, div_id,
                   rowcount, erro, resultado, hist, chamador, req, run, con, aviso, par>>

\* lines 143-147: _detectar_divergencias_valores and extend
DetValores ==
    /\ pc = "d_valores"
    /\ \E ok \in BOOLEAN :
          /\ Desfecho(ok)
          /\ IF ok
             THEN /\ LET rows == SelectSeq(det.visao, SelecionaValores)
                     IN  det' = [det EXCEPT !.rows_valores = rows,
                                            !.divergencias_valores = DivergenciasValores(rows),
                                            !.divergencias = @ \o DivergenciasValores(rows),
                                            !.feitas = Append(@, "valores")]
                  /\ pc' = "d_filtro"
                  /\ UNCHANGED abortada
             ELSE /\ det' = [det EXCEPT !.feitas = Append(@, "valores")]
                  /\ pc' = "d_raise"
                  /\ abortada' = TRUE
    /\ UNCHANGED <<db, tx, divergencias, modo, limite, i, op_id, div_id,
                   rowcount, erro, resultado, hist, chamador, req, run, con, aviso, par>>

\* lines 149-162: the confidence filter and the return
DetFiltrar ==
    /\ pc = "d_filtro"
    /\ det' = [det EXCEPT !.retorno = SelectSeq(det.divergencias, PassaFiltro)]
    /\ pc' = "d_ret"
    /\ UNCHANGED <<db, tx, abortada, divergencias, modo, limite, i, op_id, div_id,
                   rowcount, erro, resultado, falhas, hist, chamador, req, run, con, aviso, par>>

NextDetectar ==
    \/ DetectarDivergencias
    \/ DetTradeMarketing
    \/ DetPendentes
    \/ DetValores
    \/ DetFiltrar

SpecDetectar == Init /\ [][NextDetectar]_vars

----------------------------------------------------------------------------
(* Properties of the correction applier                                     *)

Terminais == {"SUCCESS", "FAILED", "ROLLED_BACK"}

\* the last divergence the loop finished
Ultima == Len(hist.falhou)

\* operations the automatic path opened, by final status
OpsAuto(status) ==
    { id \in DOMAIN db.ops : /\ db.ops[id].tipo_operacao = "UPDATE"
                             /\ db.ops[id].origem = "AUTOMATION"
                             /\ db.ops[id].status = status }

\* processed divergences whose only failed statement is the UPDATE of the target table
SoUpdateFalhou == { k \in DOMAIN hist.falhou : hist.falhou[k] = {"update"} }

\* C1: when one step of an automatic application fails after the operation
\* record was opened (and the failure handler itself runs through), the
\* committed target table is what it was before the call, the operation is
\* FAILED with the error message, and the divergence is counted as an error.
C1_FalhaDesfazUpdate ==
    (/\ pc \in {"loop", "ret"}
     /\ Ultima > 0
     /\ hist.rota[Ultima] = "auto"
     /\ hist.falhou[Ultima] # {}
     /\ "except" \notin hist.falhou[Ultima]
     /\ op_id # 0)
    => /\ db.ctrl = hist.antes
       /\ db.ops[op_id].status = "FAILED"
       /\ db.ops[op_id].erro_mensagem # NULL
       /\ resultado.detalhes[Ultima].status = "ERRO"
       /\ resultado.erros >= 1

\* C2: a divergence takes the write path iff modo is 'auto', its confidence
\* is at least limite_auto_aplicacao and its kind is one of the two trade
\* marketing kinds; any other takes the pending path and is never written.
C2_RotaAutoSseElegivel ==
    /\ \A k \in DOMAIN hist.rota :
          /\ hist.rota[k] \in {"auto", "pendente"}
          /\ (hist.rota[k] = "auto") <=>
                (/\ modo = "auto"
                 /\ divergencias[k].confianca >= limite
                 /\ divergencias[k].tipo \in {"TRADE_MARKETING_BONUS", "TRADE_MARKETING_TRADE"})
          /\ (hist.rota[k] = "pendente") => k \notin hist.upd
    /\ pc = "ret" => Len(hist.rota) = Len(divergencias)

C2_Witness ==
    /\ pc = "ret"
    /\ \E k \in DOMAIN hist.rota :
          /\ hist.rota[k] = "auto"
          /\ divergencias[k].confianca = limite
          /\ k \in hist.upd
    /\ \E k \in DOMAIN hist.rota :
          /\ hist.rota[k] = "pendente"
          /\ divergencias[k].confianca >= limite

\* C3: the summary's three counters add up to total_divergencias, which is
\* the length of the input, and detalhes has one entry per input divergence,
\* in order, whatever failed on the way.
C3_ContagensFecham ==
    pc = "ret" =>
        /\ resultado.corrigidas_automaticamente + resultado.pendentes_aprovacao
              + resultado.erros = resultado.total_divergencias
        /\ resultado.total_divergencias = Len(divergencias)
        /\ Len(resultado.detalhes) = Len(divergencias)
        /\ \A k \in DOMAIN divergencias :
              /\ resultado.detalhes[k].idnfsexterno = divergencias[k].idnfsexterno
              /\ resultado.detalhes[k].tipo = divergencias[k].tipo

C3_Witness ==
    /\ pc = "ret"
    /\ Len(divergencias) >= 2
    /\ resultado.erros >= 1
    /\ resultado.corrigidas_automaticamente + resultado.pendentes_aprovacao >= 1
    /\ \E k \in DOMAIN hist.falhou : "except" \in hist.falhou[k]

\* C4 as stated: in manual mode nothing is written to byd.controladoria and
\* every divergence ends counted as pending with a DETECTED ledger record.
C4_ManualTodasPendentes ==
    (pc = "ret" /\ modo = "manual") =>
        /\ hist.upd = {}
        /\ db.ctrl = TabelaInicial
        /\ resultado.pendentes_aprovacao = Len(divergencias)
        /\ \A k \in DOMAIN divergencias :
              /\ hist.reg[k] \in DOMAIN db.divs
              /\ db.divs[hist.reg[k]].status_processamento = "DETECTED"

\* C4 amended: in manual mode no UPDATE of byd.controladoria is executed and
\* the table is unchanged; every divergence is counted as pending or as an
\* error, it is pending exactly when no ledger write of its registration
\* failed, and a pending one has its ledger record, in status DETECTED.
C4_ManualNuncaEscreve ==
    modo = "manual" =>
        /\ hist.upd = {}
        /\ db.ctrl = TabelaInicial
        /\ tx.ctrl = TabelaInicial
        /\ \A k \in DOMAIN hist.rota : hist.rota[k] = "pendente"
        /\ pc = "ret" =>
              /\ resultado.corrigidas_automaticamente = 0
              /\ resultado.pendentes_aprovacao + resultado.erros = Len(divergencias)
              /\ \A k \in DOMAIN divergencias :
                    /\ (resultado.detalhes[k].status = "PENDENTE_APROVACAO")
                          <=> (hist.falhou[k] = {})
                    /\ (resultado.detalhes[k].status # "PENDENTE_APROVACAO")
                          => resultado.detalhes[k].status = "ERRO"
                    /\ (resultado.detalhes[k].status = "PENDENTE_APROVACAO") =>
                          /\ hist.reg[k] \in DOMAIN db.divs
                          /\ db.divs[hist.reg[k]].status_processamento = "DETECTED"
                          /\ db.divs[hist.reg[k]].idnfsexterno = divergencias[k].idnfsexterno
                          /\ db.divs[hist.reg[k]].tipo_divergencia = divergencias[k].tipo

C4_Witness ==
    /\ pc = "ret"
    /\ modo = "manual"
    /\ Len(divergencias) = 2
    /\ \E k \in DOMAIN divergencias :
          /\ divergencias[k].confianca >= limite
          /\ divergencias[k].tipo \in TiposAuto
          /\ resultado.detalhes[k].status = "PENDENTE_APROVACAO"
    /\ \E k \in DOMAIN divergencias : resultado.detalhes[k].status = "ERRO"

\* C5: in auto mode over n eligible divergences of which the target write
\* fails for exactly k (and nothing else fails), the run goes through all of
\* them: n-k corrected, k errors, k operations FAILED with an error message
\* and n-k operations SUCCESS.
C5_FalhaParcialContinua ==
    (/\ pc = "ret"
     /\ modo = "auto"
     /\ \A j \in DOMAIN hist.rota : hist.rota[j] = "auto"
     /\ \A j \in DOMAIN hist.falhou : hist.falhou[j] \subseteq {"update"})
    => LET n == Len(divergencias)
           k == Cardinality(SoUpdateFalhou)
       IN  /\ resultado.corrigidas_automaticamente = n - k
           /\ resultado.erros = k
           /\ resultado.pendentes_aprovacao = 0
           /\ Cardinality(OpsAuto("FAILED")) = k
           /\ Cardinality(OpsAuto("SUCCESS")) = n - k
           /\ Cardinality(DOMAIN db.ops) = n
           /\ \A id \in OpsAuto("FAILED") : db.ops[id].erro_mensagem \notin {NULL, ""}

\* the write fails for the first of two eligible divergences and the second is corrected
C5_Witness ==
    /\ pc = "ret"
    /\ modo = "auto"
    /\ Len(divergencias) = 2
    /\ hist.rota = <<"auto", "auto">>
    /\ hist.falhou = << {"update"}, {} >>
    /\ resultado.corrigidas_automaticamente = 1
    /\ resultado.erros = 1

\* C7: operations are created PENDING, and an operation whose committed
\* status is terminal is never changed again.
C7_OperacaoNuncaRefinalizada ==
    [][ /\ \A id \in DOMAIN db.ops :
              db.ops[id].status \in Terminais =>
                 (id \in DOMAIN db'.ops /\ db'.ops[id] = db.ops[id])
        /\ \A id \in DOMAIN db'.ops :
              id \notin DOMAIN db.ops => db'.ops[id].status = "PENDING" ]_vars

\* C8: when the workflow that opened an operation is over, exactly one
\* finalizar_operacao call has been made for it.
C8_UmaFinalizacaoPorOperacao ==
    pc \in {"idle", "loop", "ret"} =>
        \A id \in DOMAIN hist.fin : hist.fin[id] = 1

----------------------------------------------------------------------------
(* Properties of the ledger under the endpoints                             *)

StatusDivergencia == {"DETECTED", "APPROVED", "REJECTED", "AUTO_APPLIED"}

\* C6: a divergence record only moves from DETECTED to APPROVED, REJECTED or
\* AUTO_APPLIED, and once it has left DETECTED no status update changes its
\* status or its applied value.
C6_StatusSoAvanca ==
    [][ \A id \in DOMAIN db.divs :
           /\ id \in DOMAIN db'.divs
           /\ db'.divs[id].status_processamento \in StatusDivergencia
           /\ db.divs[id].status_processamento # "DETECTED" =>
                 /\ db'.divs[id].status_processamento = db.divs[id].status_processamento
                 /\ db'.divs[id].valor_aplicado = db.divs[id].valor_aplicado ]_vars

----------------------------------------------------------------------------
(* Properties of the daily run                                              *)

StatusTerminalSessao == {"COMPLETED", "PARTIAL", "FAILED"}

ErrosNaoFatais == {"Erro ao gerar relatorio", "Erro ao enviar notificacao"}

\* an error of some stage that did not stop the run
HouveErroNaoFatal ==
    \/ resultado.erros > 0
    \/ \E k \in DOMAIN run.erros : run.erros[k] \in ErrosNaoFatais

\* C9: when executar has returned, the session it created has been finalized
\* exactly once and its row carries a terminal status, not RUNNING.
C9_SessaoFinalizadaUmaVez ==
    (pc = "e_ret" /\ run.sessao_id # 0) =>
        /\ run.fim_sessao = 1
        /\ db.sess[run.sessao_id].status \in StatusTerminalSessao
        /\ db.sess[run.sessao_id].fim_processamento = 1

\* C10: the status executar returns is COMPLETED exactly when the apply stage
\* was completed and no stage recorded an error, PARTIAL exactly when it was
\* completed and some stage recorded a non-fatal error, FAILED exactly when
\* the apply stage was not completed.
C10_StatusTerminal ==
    pc = "e_ret" =>
        LET aplicou == \E k \in DOMAIN run.etapas : run.etapas[k] = "correcao"
        IN  /\ run.status = "COMPLETED" <=> (aplicou /\ ~HouveErroNaoFatal)
            /\ run.status = "PARTIAL" <=> (aplicou /\ HouveErroNaoFatal)
            /\ run.status = "FAILED" <=> ~aplicou

\* C11: executar always comes to its return with status COMPLETED, PARTIAL or
\* FAILED; a FAILED run has str(e) as the last entry of erros and made exactly
\* one critical-alert call, however that call ended; a run that is not FAILED
\* made none, opened its session, passed the apply stage and finalized the
\* session; before the except block no critical alert has been attempted.
C11_NuncaPropaga ==
    /\ run.alerta_critico <= 1
    /\ pc # "e_ret" => (run.alerta_critico = 0 /\ run.status # "FAILED")
    /\ pc = "e_ret" =>
          /\ run.status \in StatusTerminalSessao
          /\ run.status = "FAILED" <=> run.fatal # "nenhum"
          /\ run.status = "FAILED" =>
                /\ run.alerta_critico = 1
                /\ run.critico \in {"enviado", "nao_enviado", "erro"}
                /\ Len(run.erros) >= 1
                /\ run.erros[Len(run.erros)] = "excecao"
          /\ run.status # "FAILED" =>
                /\ run.alerta_critico = 0
                /\ run.critico = "nenhum"
                /\ \A k \in DOMAIN run.erros : run.erros[k] # "excecao"
                /\ run.sessao_id # 0
                /\ run.fim_sessao = 1
                /\ \E k \in DOMAIN run.etapas : run.etapas[k] = "correcao"

\* a run that failed at detection, whose critical alert raised as well
C11_Witness ==
    /\ pc = "e_ret"
    /\ run.status = "FAILED"
    /\ run.sessao_id # 0
    /\ run.etapas = <<>>
    /\ run.alerta_critico = 1
    /\ run.critico = "erro"

\* the report or the alert raised in this run
HouveErroDeEtapa == \E k \in DOMAIN run.erros : run.erros[k] \in ErrosNaoFatais

----------------------------------------------------------------------------
(* Properties of detectar_divergencias                                      *)

\* the call had its default arguments
ArgumentosPadrao ==
    /\ det.data_inicio = 0
    /\ det.data_fim = 0
    /\ det.tipo_divergencia = NULL
    /\ det.limite_confianca = LimiteConfiancaPadrao

\* the trade marketing scan has returned
TradeFeita == pc \in {"d_pendentes", "d_valores", "d_filtro", "d_ret"} \/ Len(det.feitas) >= 2

\* C13: for the rows the manual-review scan returned, in their order, the
\* trade marketing rule emits one TRADE_MARKETING_BONUS divergence exactly when
\* bonus_dpto and valor_bonus are more than 0.01 apart, then one
\* TRADE_MARKETING_TRADE divergence exactly when trade_mkt_dpto and trade are
\* more than 0.01 apart (null as 0, exactly 0.01 apart emits nothing), each
\* with confidence 0.95, the department value as current and the source value
\* as expected.
C13_UmaPorCampoDivergente ==
    TradeFeita =>
        LET Distam(a, b) == (IF a >= b THEN a - b ELSE b - a) > 1
            Esperadas(r) ==
                (IF Distam(Num(r.bonus_dpto), Num(r.valor_bonus))
                 THEN << <<r.idnfsexterno, "TRADE_MARKETING_BONUS",
                           Num(r.bonus_dpto), Num(r.valor_bonus), 95>> >>
                 ELSE <<>>)
                \o (IF Distam(Num(r.trade_mkt_dpto), Num(r.trade))
                    THEN << <<r.idnfsexterno, "TRADE_MARKETING_TRADE",
                              Num(r.trade_mkt_dpto), Num(r.trade), 95>> >>
                    ELSE <<>>)
            Emitida(d) == <<d.idnfsexterno, d.tipo, d.valor_atual, d.valor_esperado,
                            d.confianca>>
        IN  [k \in DOMAIN det.divergencias_trade |-> Emitida(det.divergencias_trade[k])]
              = Achata([k \in 1..Len(det.rows_trade) |-> Esperadas(det.rows_trade[k])])

\* C14: detectar_divergencias called with its default arguments returns, for
\* every row of the view with the pending sentinel inside the fixed window,
\* exactly one divergence of that row, of confidence 0.5; and no auto-apply
\* threshold sends a pending-verification divergence to the write path.
C14_PendenteUmaPorLinha ==
    /\ (pc = "d_ret" /\ ArgumentosPadrao) =>
          \A k \in DOMAIN det.visao :
             (/\ det.visao[k].bonus_utilizado = Pendente
              /\ det.visao[k].dta_processamento >= JanelaInicio
              /\ det.visao[k].dta_processamento <= JanelaFim) =>
                Cardinality({ j \in DOMAIN det.retorno :
                                /\ det.retorno[j].idnfsexterno = det.visao[k].idnfsexterno
                                /\ det.retorno[j].tipo = "PENDENTE_VERIFICACAO"
                                /\ det.retorno[j].confianca = 50 })
                  = Cardinality({ m \in DOMAIN det.visao : det.visao[m] = det.visao[k] })
    /\ \A k \in DOMAIN det.divergencias_pendentes, l \in 0..100 :
          ~AplicarAuto(det.divergencias_pendentes[k], "auto", l)

\* C15: detectar_divergencias called with its default arguments returns, for
\* every row of the view with trade, valor_bonus or bonus_dpto negative or
\* with trade or valor_bonus above 100000, exactly one VALIDACAO_VALOR
\* divergence of that row, of confidence 0.7, whose regras_violadas is not
\* empty.
C15_ValorUmaPorLinha ==
    (pc = "d_ret" /\ ArgumentosPadrao) =>
        \A k \in DOMAIN det.visao :
           (\/ Num(det.visao[k].trade) < 0
            \/ Num(det.visao[k].valor_bonus) < 0
            \/ Num(det.visao[k].bonus_dpto) < 0
            \/ Num(det.visao[k].trade) > LimiteOutlier
            \/ Num(det.visao[k].valor_bonus) > LimiteOutlier) =>
              Cardinality({ j \in DOMAIN det.retorno :
                              /\ det.retorno[j].idnfsexterno = det.visao[k].idnfsexterno
                              /\ det.retorno[j].tipo = "VALIDACAO_VALOR"
                              /\ det.retorno[j].confianca = 70
                              /\ det.retorno[j].regras_violadas # <<>> })
                = Cardinality({ m \in DOMAIN det.visao : det.visao[m] = det.visao[k] })

C17_FiltroDeTipo ==
    (pc = "d_ret" /\ det.tipo_divergencia # NULL) =>
        \A j \in DOMAIN det.retorno : det.retorno[j].tipo = det.tipo_divergencia

\* the scans in the order detectar_divergencias calls them
OrdemDasVarreduras == <<"trade", "pendentes", "valores">>

\* C18: a scan that raises ends detectar_divergencias: the call raises,
\* returns no list, and the scans after the failing one are not run; only a
\* call whose three scans all returned reaches the filter and the return.
C18_FalhaDeVarreduraPropaga ==
    /\ det.feitas = SubSeq(OrdemDasVarreduras, 1, Len(det.feitas))
    /\ falhas > 0 => pc = "d_raise"
    /\ pc = "d_raise" =>
          /\ falhas = 1
          /\ Len(det.feitas) >= 1
          /\ det.retorno = <<>>
          /\ Len(det.feitas) <= 2 =>
                (det.rows_valores = <<>> /\ det.divergencias_valores = <<>>)
          /\ Len(det.feitas) <= 1 =>
                (det.rows_pendentes = <<>> /\ det.divergencias_pendentes = <<>>)
          /\ Len(det.divergencias) = Len(det.divergencias_trade)
                 + Len(det.divergencias_pendentes) + Len(det.divergencias_valores)
    /\ pc \in {"d_filtro", "d_ret"} => (det.feitas = OrdemDasVarreduras /\ falhas = 0)

\* the second scan raised after the first had found divergences, over a view
\* in which the third scan would have found some
C18_Witness ==
    /\ pc = "d_raise"
    /\ det.feitas = <<"trade", "pendentes">>
    /\ det.divergencias_trade # <<>>
    /\ SelectSeq(det.visao, SelecionaValores) # <<>>
    /\ det.divergencias_valores = <<>>

----------------------------------------------------------------------------
(* The ledger writes of AuditLogger, call by call on the connection, inside *)
(* a block of db_connection (conn.py)                                       *)

\* the six ledger writes
Escritas ==
    {"iniciar_operacao", "finalizar_operacao", "registrar_divergencia",
     "atualizar_status_divergencia", "iniciar_sessao_processamento",
     "finalizar_sessao_processamento"}

\* the statement each ledger write executes, on the newest row of its table
Instrucao(w, s) ==
    CASE w = "iniciar_operacao" ->
            InsertOperacao(s, "CORRECAO_AUTOMATICA", "DivergenceProcessor")
      [] w = "finalizar_operacao" ->
            UpdateOperacao(s, Len(s.ops), "SUCCESS", 1, NULL)
      [] w = "registrar_divergencia" ->
            InsertDivergencia(s, Len(s.ops),
                Divergencia("NF1", "TRADE_MARKETING_BONUS", "bonus_dpto", 0, 1, 95))
      [] w = "atualizar_status_divergencia" ->
            UpdateDivergencia(s, Len(s.divs), "AUTO_APPLIED", 1, NULL)
      [] w = "iniciar_sessao_processamento" ->
            InsertSessao(s, "DAILY_AUTO")
      [] w = "finalizar_sessao_processamento" ->
            UpdateSessao(s, Len(s.sess), "COMPLETED", ResultadoVazio)

\* how often method m is in the call log q
Vezes(q, m) == Cardinality({ k \in DOMAIN q : q[k] = m })

\* conn.py 82-84: conn = None; conn = get_connection()
DbConnection ==
    /\ pc = "idle"
    /\ \E ok \in BOOLEAN :
          /\ Desfecho(ok)
          /\ IF ok
             THEN /\ con' = [ConVazio EXCEPT !.conn = TRUE]
                  /\ pc' = "c_bloco"
             ELSE /\ con' = [ConVazio EXCEPT !.erro = "get_connection"]
                  /\ pc' = "c_except"
    /\ UNCHANGED <<db, tx, abortada, divergencias, modo, limite, i, op_id, div_id,
                   rowcount, erro, resultado, hist, chamador, req, run, det, aviso, par>>

\* conn.py 85, the block under the yield: it calls a ledger write, with or
\* without a statement of its own executed and not yet committed
BlocoEscreve ==
    /\ pc = "c_bloco"
    /\ con.escritas < MaxEscritas
    /\ \E w \in Escritas, pend \in BOOLEAN :
          /\ con' = [con EXCEPT !.escritas = @ + 1, !.escrita = w, !.pendente = pend,
                                !.antes = db, !.chamadas = <<>>,
                                !.falhou = "nenhum", !.desfecho = "nenhum"]
          /\ tx' = IF pend THEN UpdateControladoria(tx, "bonus_dpto", 1, "NF1") ELSE tx
    /\ pc' = "l_execute"
    /\ UNCHANGED <<db, abortada, divergencias, modo, limite, i, op_id, div_id,
                   rowcount, erro, resultado, falhas, hist, chamador, req, run, det, aviso, par>>

\* audit_logger.py, each ledger write: self.cursor.execute(query, ...)
LedgerExecute ==
    /\ pc = "l_execute"
    /\ \E ok \in BOOLEAN :
          /\ Desfecho(ok)
          /\ IF ok
             THEN /\ tx' = Instrucao(con.escrita, tx)
                  /\ con' = [con EXCEPT !.chamadas = Append(@, "execute")]
                  /\ pc' = "l_commit"
                  /\ UNCHANGED abortada
             ELSE /\ abortada' = TRUE
                  /\ con' = [con EXCEPT !.chamadas = Append(@, "execute"),
                                        !.falhou = "execute"]
                  /\ pc' = "l_except"
                  /\ UNCHANGED tx
    /\ UNCHANGED <<db, divergencias, modo, limite, i, op_id, div_id,
                   rowcount, erro, resultado, hist, chamador, req, run, det, aviso, par>>

\* audit_logger.py, each ledger write: self.conn.commit() and the return
LedgerCommit ==
    /\ pc = "l_commit"
    /\ \E ok \in BOOLEAN :
          /\ Desfecho(ok)
          /\ IF ok
             THEN /\ Commit(tx)
                  /\ con' = [con EXCEPT !.chamadas = Append(@, "commit"),
                                        !.desfecho = "retornou"]
                  /\ pc' = "l_ret"
             ELSE /\ abortada' = TRUE
                  /\ con' = [con EXCEPT !.chamadas = Append(@, "commit"),
                                        !.falhou = "commit"]
                  /\ pc' = "l_except"
                  /\ UNCHANGED <<db, tx>>
    /\ UNCHANGED <<divergencias, modo, limite, i, op_id, div_id,
                   rowcount, erro, resultado, hist, chamador, req, run, det, aviso, par>>

\* the except of a ledger write without its self.conn.rollback()
LedgerExceptSemRollback ==
    /\ pc = "l_except"
    /\ con' = [con EXCEPT !.desfecho = "levantou"]
    /\ pc' = "l_raise"
    /\ UNCHANGED <<db, tx, abortada, divergencias, modo, limite, i, op_id, div_id,
                   rowcount, erro, resultado, falhas, hist, chamador, req, run, det, aviso, par>>

\* audit_logger.py, each ledger write: except psycopg2.Error: log,
\* self.conn.rollback(), raise
LedgerExcept ==
    /\ pc = "l_except"
    /\ Rollback
    /\ con' = [con EXCEPT !.chamadas = Append(@, "rollback"), !.desfecho = "levantou"]
    /\ pc' = "l_raise"
    /\ UNCHANGED <<divergencias, modo, limite, i, op_id, div_id,
                   rowcount, erro, resultado, falhas, hist, chamador, req, run, det, aviso, par>>

\* the ledger write returned to the block
LedgerRetorna ==
    /\ pc = "l_ret"
    /\ pc' = "c_bloco"
    /\ UNCHANGED <<db, tx, abortada, divergencias, modo, limite, i, op_id, div_id,
                   rowcount, erro, resultado, falhas, hist, chamador, req, run, det, con,
                   aviso, par>>

\* the ledger write raised into the block, which handles the exception and
\* goes on, or lets it out of the with statement
LedgerLevanta ==
    /\ pc = "l_raise"
    /\ \/ /\ pc' = "c_bloco"
          /\ UNCHANGED con
       \/ /\ pc' = "c_except"
          /\ con' = [con EXCEPT !.bloco = "levantou", !.erro = "bloco"]
    /\ UNCHANGED <<db, tx, abortada, divergencias, modo, limite, i, op_id, div_id,
                   rowcount, erro, resultado, falhas, hist, chamador, req, run, det, aviso, par>>

\* the block ends normally
BlocoSai ==
    /\ pc = "c_bloco"
    /\ con' = [con EXCEPT !.bloco = "normal"]
    /\ pc' = "c_commit"
    /\ UNCHANGED <<db, tx, abortada, divergencias, modo, limite, i, op_id, div_id,
                   rowcount, erro, resultado, falhas, hist, chamador, req, run, det, aviso, par>>

\* the block raises an exception of its own: an Exception, which the except
\* of line 87 catches, or a BaseException that is not one (KeyboardInterrupt,
\* SystemExit), which only the finally sees
BlocoLevanta ==
    /\ pc = "c_bloco"
    /\ \/ /\ con' = [con EXCEPT !.bloco = "levantou", !.erro = "bloco"]
          /\ pc' = "c_except"
       \/ /\ con' = [con EXCEPT !.bloco = "levantou", !.erro = "interrupcao"]
          /\ pc' = "c_finally"
    /\ UNCHANGED <<db, tx, abortada, divergencias, modo, limite, i, op_id, div_id,
                   rowcount, erro, resultado, falhas, hist, chamador, req, run, det, aviso, par>>

\* conn.py 86: conn.commit() after the yield, inside the try
ConCommit ==
    /\ pc = "c_commit"
    /\ \E ok \in BOOLEAN :
          /\ Desfecho(ok)
          /\ IF ok
             THEN /\ Commit(tx)
                  /\ con' = [con EXCEPT !.gerente = Append(@, "commit")]
                  /\ pc' = "c_finally"
             ELSE /\ abortada' = TRUE
                  /\ con' = [con EXCEPT !.gerente = Append(@, "commit"),
                                        !.erro = "commit"]
                  /\ pc' = "c_except"
                  /\ UNCHANGED <<db, tx>>
    /\ UNCHANGED <<divergencias, modo, limite, i, op_id, div_id,
                   rowcount, erro, resultado, hist, chamador, req, run, det, aviso, par>>

\* an except that rolls back only what the block raised
ConExceptSoDoBloco ==
    /\ pc = "c_except"
    /\ IF con.conn /\ con.erro = "bloco"
       THEN /\ Rollback
            /\ con' = [con EXCEPT !.gerente = Append(@, "rollback")]
       ELSE UNCHANGED <<db, tx, abortada, con>>
    /\ pc' = "c_finally"
    /\ UNCHANGED <<divergencias, modo, limite, i, op_id, div_id,
                   rowcount, erro, resultado, falhas, hist, chamador, req, run, det, aviso, par>>

\* conn.py 87-90: except Exception: if conn: conn.rollback(); raise
ConExcept ==
    /\ pc = "c_except"
    /\ IF con.conn
       THEN /\ Rollback
            /\ con' = [con EXCEPT !.gerente = Append(@, "rollback")]
       ELSE UNCHANGED <<db, tx, abortada, con>>
    /\ pc' = "c_finally"
    /\ UNCHANGED <<divergencias, modo, limite, i, op_id, div_id,
                   rowcount, erro, resultado, falhas, hist, chamador, req, run, det, aviso, par>>

\* conn.py 91-93: finally: if conn: conn.close(); then the exception in
\* flight goes on to the caller, or the with statement ends
ConFinally ==
    /\ pc = "c_finally"
    /\ con' = IF con.conn THEN [con EXCEPT !.gerente = Append(@, "close")] ELSE con
    /\ pc' = IF con.erro = "nenhum" THEN "c_ret" ELSE "c_raise"
    /\ UNCHANGED <<db, tx, abortada, divergencias, modo, limite, i, op_id, div_id,
                   rowcount, erro, resultado, falhas, hist, chamador, req, run, det, aviso, par>>

NextConexao ==
    \/ DbConnection
    \/ BlocoEscreve
    \/ LedgerExecute
    \/ LedgerCommit
    \/ LedgerExcept
    \/ LedgerRetorna
    \/ LedgerLevanta
    \/ BlocoSai
    \/ BlocoLevanta
    \/ ConCommit
    \/ ConExcept
    \/ ConFinally

SpecConexao == Init /\ [][NextConexao]_vars

----------------------------------------------------------------------------
(* Properties of the ledger writes and of db_connection                     *)

\* C19: a ledger write whose statement fails calls rollback exactly once and
\* commit never, leaves the committed tables as they were when it was called,
\* and raises to its caller instead of returning.
C19_FalhaReverteEPropaga ==
    /\ (con.falhou = "execute" /\ pc # "l_except") =>
          /\ con.desfecho = "levantou"
          /\ con.chamadas = <<"execute", "rollback">>
          /\ Vezes(con.chamadas, "rollback") = 1
          /\ Vezes(con.chamadas, "commit") = 0
          /\ db = con.antes
    /\ (pc = "l_raise" /\ con.falhou = "execute") => (tx = db /\ ~abortada)
    /\ pc = "l_ret" => (con.falhou = "nenhum" /\ con.desfecho = "retornou")
    /\ con.desfecho = "retornou" => con.chamadas = <<"execute", "commit">>

\* the statement of the second ledger write of a block failed, after the
\* first write had committed a row and with a statement of the block pending
C19_Witness ==
    /\ pc = "l_raise"
    /\ con.falhou = "execute"
    /\ con.escritas = 2
    /\ con.pendente
    /\ con.antes # BancoVazio

\* db_connection has ended, with the connection obtained
ConexaoEncerrada == pc \in {"c_ret", "c_raise"} /\ con.conn

\* C20 as stated: after a block that exits normally commit was called exactly
\* once and rollback not at all; after a block that raises rollback was called
\* exactly once, commit not at all, and the exception is re-raised; in both
\* cases close was called exactly once, as the last call.
C20_CommitOuRollback ==
    ConexaoEncerrada =>
        /\ con.bloco = "normal" =>
              (Vezes(con.gerente, "commit") = 1 /\ Vezes(con.gerente, "rollback") = 0)
        /\ con.bloco = "levantou" =>
              /\ Vezes(con.gerente, "rollback") = 1
              /\ Vezes(con.gerente, "commit") = 0
              /\ pc = "c_raise"
        /\ Vezes(con.gerente, "close") = 1
        /\ con.gerente[Len(con.gerente)] = "close"

\* C20 amended: after a block that exits normally commit was called exactly
\* once, and rollback not at all unless that commit raised, in which case
\* rollback was called exactly once after it and the exception of the commit
\* goes to the caller; after a block that raises an Exception rollback was
\* called exactly once, commit not at all, and the exception is re-raised;
\* after a block that raises a BaseException that is not an Exception neither
\* commit nor rollback was called and the exception goes on; in every case
\* close was called exactly once, as the last call.
C20_CommitOuRollbackSalvoCommitFalho ==
    ConexaoEncerrada =>
        /\ con.bloco \in {"normal", "levantou"}
        /\ (con.bloco = "normal" /\ con.erro = "nenhum") =>
              (con.gerente = <<"commit", "close">> /\ pc = "c_ret")
        /\ (con.bloco = "normal" /\ con.erro # "nenhum") =>
              /\ con.erro = "commit"
              /\ con.gerente = <<"commit", "rollback", "close">>
              /\ pc = "c_raise"
        /\ (con.bloco = "levantou" /\ con.erro # "interrupcao") =>
              /\ con.erro = "bloco"
              /\ con.gerente = <<"rollback", "close">>
              /\ pc = "c_raise"
        /\ (con.bloco = "levantou" /\ con.erro = "interrupcao") =>
              /\ con.gerente = <<"close">>
              /\ pc = "c_raise"

\* the block exited normally and the commit of db_connection raised
C20_Witness ==
    /\ pc = "c_raise"
    /\ con.conn
    /\ con.bloco = "normal"
    /\ con.erro = "commit"
    /\ con.escritas > 0

----------------------------------------------------------------------------
(* Properties of the operation records of corrections                       *)

\* C21: every operation record that a correction (automatic application or
\* approval through the endpoint) finalized SUCCESS stores in
\* registros_afetados the number of rows of byd.controladoria its UPDATE
\* wrote.
C21_RegistrosAfetadosReais ==
    \A k \in DOMAIN db.ops :
       (/\ db.ops[k].tipo_operacao = "UPDATE"
        /\ db.ops[k].status = "SUCCESS"
        /\ k \in DOMAIN hist.alvo
        /\ hist.alvo[k].feito) =>
          db.ops[k].registros_afetados = hist.alvo[k].linhas

\* C22: a divergence sent to the automatic application whose idnfsexterno
\* matches no row of byd.controladoria is not reported as corrected: its
\* detail is not CORRIGIDO_AUTO and its divergence record, if any, is not
\* AUTO_APPLIED.
C22_NotaInexistenteNaoCorrigida ==
    \A k \in DOMAIN resultado.detalhes :
       (/\ k \in DOMAIN hist.rota
        /\ k \in DOMAIN hist.reg
        /\ hist.rota[k] = "auto"
        /\ Linhas(db, divergencias[k].idnfsexterno) = {}) =>
          /\ resultado.detalhes[k].status # "CORRIGIDO_AUTO"
          /\ hist.reg[k] \in DOMAIN db.divs =>
                db.divs[hist.reg[k]].status_processamento # "AUTO_APPLIED"

----------------------------------------------------------------------------
(* Order of the stages of DailyProcessor.executar                           *)

\* the stages of executar, in the order of the code
OrdemDasEtapas ==
    <<"sessao", "deteccao", "correcao", "relatorio", "notificacao", "finalizacao">>

\* C23: the stages of a run are entered in the order begin session, detect,
\* apply, report, notify, finalize session, each at most once and none again;
\* the apply stage is entered only once detection has returned, and the
\* session is finalized only after the notify stage was passed.
C23_EtapasEmOrdem ==
    /\ Len(run.trilha) <= Len(OrdemDasEtapas)
    /\ run.trilha = SubSeq(OrdemDasEtapas, 1, Len(run.trilha))
    /\ Len(run.trilha) >= 3 =>
          (\E k \in DOMAIN run.etapas : run.etapas[k] = "deteccao")
    /\ pc \in {"loop", "a_select", "a_update", "a_registrar", "a_atualizar",
               "a_finalizar", "a_commit", "a_except", "p_registrar", "p_finalizar",
               "p_commit"} => Len(run.trilha) = 3
    /\ run.fim_sessao > 0 => (Len(run.trilha) = 6 /\ run.fim_sessao = 1)
    /\ run.fim_sessao = 0 =>
          (\A k \in DOMAIN db.sess : db.sess[k].fim_processamento = 0)

\* a run that went through all six stages, with corrections applied and an
\* alert that raised
C23_Witness ==
    /\ pc = "e_ret"
    /\ run.trilha = OrdemDasEtapas
    /\ resultado.corrigidas_automaticamente > 0
    /\ HouveErroDeEtapa

----------------------------------------------------------------------------
(* NotificationService.enviar_alerta_divergencias (notification_service.py) *)

\* total_divergencias and divergencias_criticas of a call: around the
\* severity thresholds (more than 5, more than 10)
Contagens == {0, 1, 6, 11}

\* lines 181-190: severidade
Severidade(criticas) ==
    IF criticas > 10 THEN "CRITICO"
    ELSE IF criticas > 5 THEN "ATENCAO"
    ELSE "INFORMATIVO"

\* lines 56-76: __init__ reads SMTP_USER, SMTP_PASSWORD, NOTIFICATION_RECIPIENTS
NotificationService ==
    /\ pc = "idle"
    /\ \E smtp \in BOOLEAN, n \in 0..1 :
          aviso' = [AvisoVazio EXCEPT !.smtp_enabled = smtp, !.default_recipients = n]
    /\ pc' = "n_pronto"
    /\ UNCHANGED <<db, tx, abortada, divergencias, modo, limite, i, op_id, div_id,
                   rowcount, erro, resultado, falhas, hist, chamador, req, run, det, con, par>>

\* lines 149-300: destinatarios defaults to self.default_recipients; with no
\* recipient the call returns False; otherwise the subject and the body are
\* built and enviar_email is called
EnviarAlertaDivergencias ==
    /\ pc = "n_pronto"
    /\ aviso.chamadas < MaxAlertas
    /\ \E total \in Contagens, criticas \in Contagens, pendentes \in 0..1,
          dest \in {SemValor, 0, 1} :
          /\ criticas <= total
          /\ pendentes <= total
          /\ LET usados == IF dest = SemValor THEN aviso.default_recipients ELSE dest
             IN  /\ aviso' = [aviso EXCEPT !.total_divergencias = total,
                                           !.divergencias_criticas = criticas,
                                           !.divergencias_pendentes = pendentes,
                                           !.destinatarios = usados,
                                           !.severidade =
                                               IF usados = 0 THEN NULL
                                               ELSE Severidade(criticas),
                                           !.chamadas = @ + 1,
                                           !.enviados = 0,
                                           !.retorno = IF usados = 0 THEN "False" ELSE NULL]
                 /\ pc' = IF usados = 0 THEN "n_ret" ELSE "n_email"
    /\ UNCHANGED <<db, tx, abortada, divergencias, modo, limite, i, op_id, div_id,
                   rowcount, erro, resultado, falhas, hist, chamador, req, run, det, con, par>>

\* lines 78-147: enviar_email returns False without SMTP credentials;
\* otherwise it hands the message to the server and returns True, or catches
\* what the server raised and returns False
EnviarEmail ==
    /\ pc = "n_email"
    /\ IF ~aviso.smtp_enabled
       THEN /\ aviso' = [aviso EXCEPT !.retorno = "False"]
            /\ UNCHANGED falhas
       ELSE \E ok \in BOOLEAN :
               /\ ok \/ falhas < MaxFalhas
               /\ falhas' = IF ok THEN falhas ELSE falhas + 1
               /\ aviso' = IF ok
                           THEN [aviso EXCEPT !.enviados = @ + 1, !.retorno = "True"]
                           ELSE [aviso EXCEPT !.retorno = "False"]
    /\ pc' = "n_ret"
    /\ UNCHANGED <<db, tx, abortada, divergencias, modo, limite, i, op_id, div_id,
                   rowcount, erro, resultado, hist, chamador, req, run, det, con, par>>

\* the caller has the answer and may call again
AlertaRetorna ==
    /\ pc = "n_ret"
    /\ pc' = "n_pronto"
    /\ UNCHANGED <<db, tx, abortada, divergencias, modo, limite, i, op_id, div_id,
                   rowcount, erro, resultado, falhas, hist, chamador, req, run, det, con, aviso,
                   par>>

NextAlerta ==
    \/ NotificationService
    \/ EnviarAlertaDivergencias
    \/ EnviarEmail
    \/ AlertaRetorna

SpecAlerta == Init /\ [][NextAlerta]_vars

\* C25: enviar_alerta_divergencias called with a total of zero divergences
\* sends no e-mail and returns False.
C25_SemDivergenciasSemAlerta ==
    (pc = "n_ret" /\ aviso.total_divergencias = 0) =>
        (aviso.enviados = 0 /\ aviso.retorno = "False")

----------------------------------------------------------------------------
(* AuditLogger.operacao_auditada (audit_logger.py 180-227)                  *)

\* what the body of the with statement raises by itself
ErroDoCorpo == "ValueError: corpo"

\* what a failed statement of the body raises
ErroDeInstrucao == "DatabaseError: update"

\* lines 212-214: iniciar_operacao, outside the try; what it raises goes to
\* the caller and the body does not run
OperacaoAuditada ==
    /\ pc = "idle"
    /\ Len(db.ops) < MaxOperacoes
    /\ \E ok \in BOOLEAN :
          /\ Desfecho(ok)
          /\ IF ok
             THEN /\ Commit(InsertOperacao(tx, "UPDATE", "API"))
                  /\ op_id' = Len(tx.ops) + 1
                  /\ hist' = [hist EXCEPT !.fin = Append(@, 0), !.alvo = Append(@, SemAlvo),
                                          !.antes = db.ctrl, !.passo = {}]
                  /\ pc' = "o_corpo"
             ELSE /\ Rollback
                  /\ op_id' = 0
                  /\ hist' = [hist EXCEPT !.antes = db.ctrl, !.passo = {"iniciar"}]
                  /\ pc' = "o_fim"
    /\ rowcount' = 0
    /\ erro' = "none"
    /\ UNCHANGED <<divergencias, modo, limite, i, div_id, resultado, chamador, req, run,
                   det, con, aviso, par>>

\* line 217, the body: it executes an UPDATE of byd.controladoria on the
\* connection and does not commit; a statement that fails raises
CorpoEscreve ==
    /\ pc = "o_corpo"
    /\ rowcount < MaxOperacoes
    /\ \E ok \in BOOLEAN, nf \in {"NF1", "NF2"}, campo \in {"bonus_dpto", "trade_mkt_dpto"} :
          /\ Desfecho(ok)
          /\ IF ok
             THEN /\ tx' = UpdateControladoria(tx, campo, 1, nf)
                  /\ rowcount' = rowcount + 1
                  /\ pc' = "o_corpo"
                  /\ UNCHANGED <<abortada, erro, hist>>
             ELSE /\ abortada' = TRUE
                  /\ erro' = ErroDeInstrucao
                  /\ hist' = Falhou(hist, "update")
                  /\ pc' = "o_except"
                  /\ UNCHANGED <<tx, rowcount>>
    /\ UNCHANGED <<db, op_id>>
    /\ UNCHANGED <<divergencias, modo, limite, i, div_id, resultado, chamador, req, run,
                   det, con, aviso, par>>

\* line 217, the body raises an exception that no statement caused
CorpoLevanta ==
    /\ pc = "o_corpo"
    /\ erro' = ErroDoCorpo
    /\ hist' = Falhou(hist, "corpo")
    /\ pc' = "o_except"
    /\ UNCHANGED <<db, tx, abortada, op_id, rowcount, falhas>>
    /\ UNCHANGED <<divergencias, modo, limite, i, div_id, resultado, chamador, req, run,
                   det, con, aviso, par>>

\* lines 217-218: the body ends and finalizar_operacao(operacao_id, 'SUCCESS')
\* commits the connection; what it raises is caught by the except of line 220
CorpoTermina ==
    /\ pc = "o_corpo"
    /\ \E ok \in BOOLEAN :
          /\ Desfecho(ok)
          /\ IF ok
             THEN /\ Commit(UpdateOperacao(tx, op_id, "SUCCESS", 0, NULL))
                  /\ hist' = ContaFin(hist, op_id)
                  /\ pc' = "o_fim"
                  /\ UNCHANGED erro
             ELSE /\ Rollback
                  /\ erro' = "DatabaseError: finalizar_operacao"
                  /\ hist' = Falhou(ContaFin(hist, op_id), "finalizar")
                  /\ pc' = "o_except"
    /\ UNCHANGED <<op_id, rowcount>>
    /\ UNCHANGED <<divergencias, modo, limite, i, div_id, resultado, chamador, req, run,
                   det, con, aviso, par>>

\* lines 220-227: except Exception: finalizar_operacao(operacao_id, 'FAILED',
\* erro_mensagem='<type>: <text>'), which executes its UPDATE on the same
\* connection and commits it; then raise.  What finalizar_operacao raises
\* replaces the exception in flight.
AuditadaExcept ==
    /\ pc = "o_except"
    /\ \E ok \in BOOLEAN :
          /\ Desfecho(ok)
          /\ IF ok
             THEN /\ Commit(UpdateOperacao(tx, op_id, "FAILED", 0, erro))
                  /\ hist' = ContaFin(hist, op_id)
                  /\ UNCHANGED erro
             ELSE /\ Rollback
                  /\ hist' = Falhou(ContaFin(hist, op_id), "except")
                  /\ erro' = "DatabaseError: finalizar_operacao"
    /\ pc' = "o_fim"
    /\ UNCHANGED <<op_id, rowcount>>
    /\ UNCHANGED <<divergencias, modo, limite, i, div_id, resultado, chamador, req, run,
                   det, con, aviso, par>>

\* the with statement is over: the caller goes on, or handles the exception
AuditadaSai ==
    /\ pc = "o_fim"
    /\ pc' = "idle"
    /\ erro' = "none"
    /\ tx' = db
    /\ abortada' = FALSE
    /\ UNCHANGED <<db, op_id, rowcount, falhas, hist>>
    /\ UNCHANGED <<divergencias, modo, limite, i, div_id, resultado, chamador, req, run,
                   det, con, aviso, par>>

NextAuditada ==
    \/ OperacaoAuditada
    \/ CorpoEscreve
    \/ CorpoLevanta
    \/ CorpoTermina
    \/ AuditadaExcept
    \/ AuditadaSai

SpecAuditada == Init /\ [][NextAuditada]_vars

\* C24: the operation is PENDING and committed while the body runs; after a
\* body that completed the operation is SUCCESS; after a body that raised the
\* operation is FAILED with the message of the body's exception, that
\* exception goes to the caller, and byd.controladoria is committed as it was
\* before the with statement.
C24_OperacaoAuditada ==
    /\ pc = "o_corpo" =>
          (op_id \in DOMAIN db.ops /\ db.ops[op_id].status = "PENDING")
    /\ (pc = "o_fim" /\ hist.passo = {}) =>
          (db.ops[op_id].status = "SUCCESS" /\ erro = "none")
    /\ (pc = "o_fim" /\ hist.passo \cap {"corpo", "update"} # {}) =>
          /\ db.ops[op_id].status = "FAILED"
          /\ db.ops[op_id].erro_mensagem =
                (IF "corpo" \in hist.passo THEN ErroDoCorpo ELSE ErroDeInstrucao)
          /\ erro = db.ops[op_id].erro_mensagem
          /\ db.ctrl = hist.antes

----------------------------------------------------------------------------
(* Duplicates handed to aplicar_correcoes                                   *)

\* C26: a divergence handed over twice (same idnfsexterno, tipo and
\* campo_afetado) is processed once: the ledger holds at most one divergence
\* record for it and the UPDATE of the target table is executed at most once
\* for it.
C26_DuplicadasUmaVez ==
    /\ \A a, b \in DOMAIN db.divs :
          (/\ db.divs[a].idnfsexterno = db.divs[b].idnfsexterno
           /\ db.divs[a].tipo_divergencia = db.divs[b].tipo_divergencia
           /\ db.divs[a].campo_afetado = db.divs[b].campo_afetado) => a = b
    /\ \A a, b \in hist.upd :
          (/\ divergencias[a].idnfsexterno = divergencias[b].idnfsexterno
           /\ divergencias[a].tipo = divergencias[b].tipo
           /\ divergencias[a].campo_afetado = divergencias[b].campo_afetado) => a = b

----------------------------------------------------------------------------
(* Agreement of the ledger with the summary of aplicar_correcoes            *)

\* C28: once aplicar_correcoes has returned, a divergence record is
\* AUTO_APPLIED only if its operation is SUCCESS and its divergence is counted
\* as corrected; and a divergence counted in 'erros' does not have its
\* expected value committed in byd.controladoria (no other element of the
\* list being about the same field of the same invoice).
C28_LedgerEResumoConcordam ==
    pc = "ret" =>
        \A k \in DOMAIN divergencias :
           /\ (/\ hist.reg[k] \in DOMAIN db.divs
               /\ db.divs[hist.reg[k]].status_processamento = "AUTO_APPLIED") =>
                  /\ db.ops[db.divs[hist.reg[k]].operacao_id].status = "SUCCESS"
                  /\ resultado.detalhes[k].status = "CORRIGIDO_AUTO"
           /\ (/\ resultado.detalhes[k].status = "ERRO"
               /\ divergencias[k].valor_esperado # SemValor
               /\ \A m \in DOMAIN divergencias :
                     (/\ divergencias[m].idnfsexterno = divergencias[k].idnfsexterno
                      /\ divergencias[m].campo_afetado = divergencias[k].campo_afetado)
                        => m = k) =>
                  \A r \in Linhas(db, divergencias[k].idnfsexterno) :
                     db.ctrl[r][divergencias[k].campo_afetado]
                        # divergencias[k].valor_esperado

----------------------------------------------------------------------------
(* Metrics of the session                                                   *)

\* how many processed divergences ended with the given status in the summary
ComStatus(st) ==
    Cardinality({ k \in DOMAIN resultado.detalhes : resultado.detalhes[k].status = st })

\* C29: a session finalized by executar stores the outcome of the run:
\* divergencias_detectadas is the number of divergences detection returned,
\* correcoes_aplicadas, correcoes_pendentes and erros_encontrados are the
\* three counters of the correction summary, which count the divergences
\* corrected, left pending and failed, and the three add up to
\* divergencias_detectadas.
C29_MetricasDaSessao ==
    \A k \in DOMAIN db.sess :
       db.sess[k].fim_processamento > 0 =>
          /\ k = run.sessao_id
          /\ db.sess[k].divergencias_detectadas = Len(divergencias)
          /\ db.sess[k].divergencias_detectadas = run.total_divergencias
          /\ db.sess[k].correcoes_aplicadas = resultado.corrigidas_automaticamente
          /\ db.sess[k].correcoes_pendentes = resultado.pendentes_aprovacao
          /\ db.sess[k].erros_encontrados = resultado.erros
          /\ db.sess[k].correcoes_aplicadas = ComStatus("CORRIGIDO_AUTO")
          /\ db.sess[k].correcoes_pendentes = ComStatus("PENDENTE_APROVACAO")
          /\ db.sess[k].erros_encontrados = ComStatus("ERRO")
          /\ db.sess[k].correcoes_aplicadas + db.sess[k].correcoes_pendentes
                + db.sess[k].erros_encontrados = db.sess[k].divergencias_detectadas

\* a finalized session of a run in which a divergence was detected and its
\* correction failed
C29_Witness ==
    /\ pc = "e_ret"
    /\ run.sessao_id \in DOMAIN db.sess
    /\ db.sess[run.sessao_id].fim_processamento = 1
    /\ db.sess[run.sessao_id].divergencias_detectadas = 1
    /\ db.sess[run.sessao_id].erros_encontrados = 1

----------------------------------------------------------------------------
(* Write-ahead audit                                                        *)

CamposDaTabela == {"bonus_dpto", "trade_mkt_dpto"}

\* the operation record k is committed and names the row key and field
Cobre(k, nf, campo) ==
    /\ k \in DOMAIN db.ops
    /\ db.ops[k].tipo_operacao = "UPDATE"
    /\ k \in DOMAIN hist.alvo
    /\ hist.alvo[k].feito
    /\ hist.alvo[k].idnfsexterno = nf
    /\ hist.alvo[k].campo = campo

\* C30: in the auto-apply path and in the approve endpoint the UPDATE of
\* byd.controladoria is issued only when the operation record of the
\* correction is already committed with status PENDING, so every change of
\* the table, uncommitted or committed, has a committed operation record.
C30_AuditoriaAntesDaEscrita ==
    /\ pc \in {"a_update", "v_update"} =>
          /\ op_id \in DOMAIN db.ops
          /\ db.ops[op_id].tipo_operacao = "UPDATE"
          /\ db.ops[op_id].status = "PENDING"
    /\ \A r \in DOMAIN TabelaInicial, campo \in CamposDaTabela :
          (tx.ctrl[r][campo] # TabelaInicial[r][campo]
              \/ db.ctrl[r][campo] # TabelaInicial[r][campo]) =>
             \E k \in DOMAIN db.ops : Cobre(k, TabelaInicial[r].idnfsexterno, campo)

\* a committed change of the table whose operation did not end in SUCCESS
C30_Witness ==
    /\ pc = "idle"
    /\ \E r \in DOMAIN TabelaInicial, campo \in CamposDaTabela :
          /\ db.ctrl[r][campo] # TabelaInicial[r][campo]
          /\ \E k \in DOMAIN db.ops :
                /\ Cobre(k, TabelaInicial[r].idnfsexterno, campo)
                /\ db.ops[k].status # "SUCCESS"

----------------------------------------------------------------------------
(* Two requests for one divergence, each on its own connection             *)
(* (api/routers/divergences.py 272-415, conn.py 73-93). The connections    *)
(* run READ COMMITTED: a statement sees what is committed and the          *)
(* connection's own writes; an UPDATE of a row waits while another         *)
(* connection holds an uncommitted UPDATE of that row.                     *)

\* the divergences a manual run leaves DETECTED whose key has rows in the table
DetectadasPar == { d \in Universo : d.tipo \in TiposAuto
                                    /\ Linhas(BancoVazio, d.idnfsexterno) # {} }

\* the ledger after the pending path registered d (lines 608-635)
LedgerComDetectada(d) ==
    UpdateOperacao(InsertDivergencia(InsertOperacao(BancoVazio, "DETECT", "AUTOMATION"), 1, d),
                   1, "SUCCESS", 0, NULL)

\* the id both requests name
IdDoPar == 1

Ped(p) == par.pedidos[p]

Outro(p) == 3 - p

\* lines 311-315: valor_aplicar of request p
ValorDoPedido(p) ==
    IF Ped(p).valor_customizado # SemValor THEN Ped(p).valor_customizado
    ELSE Ped(p).linha.valor_sugerido

\* what the connection of request p sees: the committed state and its own UPDATE
Visao(p) ==
    IF Ped(p).pendente
    THEN UpdateControladoria(db, Ped(p).linha.campo_afetado, ValorDoPedido(p),
                             Ped(p).linha.idnfsexterno)
    ELSE db

\* a statement of request p succeeds, or fails while the budget lasts
DesfechoPar(p, ok) ==
    /\ ok => ~Ped(p).abortada
    /\ (~ok /\ ~Ped(p).abortada) => falhas < MaxFalhas
    /\ falhas' = IF ok \/ Ped(p).abortada THEN falhas ELSE falhas + 1

\* a divergence is in the ledger with status DETECTED
ParDetectada ==
    /\ pc = "idle"
    /\ db = BancoVazio
    /\ \E d \in DetectadasPar :
          /\ db' = LedgerComDetectada(d)
          /\ tx' = LedgerComDetectada(d)
    /\ pc' = "c_pronto"
    /\ UNCHANGED <<abortada, divergencias, modo, limite, i, op_id, div_id, rowcount, erro,
                   resultado, falhas, hist, chamador, req, run, det, con, aviso, par>>

\* a request as it arrives: lines 272-284 (approve), 383-394 (reject)
NovoPedido(tipo, v) ==
    [PedidoParVazio EXCEPT !.tipo = tipo,
                           !.pc = IF tipo = "aprovar" THEN "select" ELSE "rejeitar",
                           !.valor_customizado = v]

\* two requests arrive: two approvals, or an approval and a rejection
ParChegam ==
    /\ pc = "c_pronto"
    /\ \E t \in {"aprovar", "rejeitar"}, v1 \in ValoresCustomizados, v2 \in ValoresCustomizados :
          /\ t = "rejeitar" => v2 = SemValor
          /\ par' = [par EXCEPT !.pedidos = <<NovoPedido("aprovar", v1), NovoPedido(t, v2)>>]
    /\ pc' = "c_correm"
    /\ UNCHANGED <<db, tx, abortada, divergencias, modo, limite, i, op_id, div_id, rowcount,
                   erro, resultado, falhas, hist, chamador, req, run, det, con, aviso>>

\* lines 289-308: SELECT ... WHERE id = %s AND status_processamento = 'DETECTED'
ParSelect ==
    /\ pc = "c_correm"
    /\ \E p \in 1..2, ok \in BOOLEAN :
          /\ Ped(p).pc = "select"
          /\ DesfechoPar(p, ok)
          /\ par' = [par EXCEPT !.pedidos[p] =
                IF ~ok
                THEN [@ EXCEPT !.abortada = TRUE, !.status = "erro", !.pc = "saida"]
                ELSE IF /\ IdDoPar \in DOMAIN db.divs
                        /\ db.divs[IdDoPar].status_processamento = "DETECTED"
                     THEN [@ EXCEPT !.linha = db.divs[IdDoPar], !.pc = "iniciar"]
                     ELSE [@ EXCEPT !.status = "erro", !.pc = "saida"]]
    /\ UNCHANGED <<db, tx, abortada, pc, divergencias, modo, limite, i, op_id, div_id,
                   rowcount, erro, resultado, hist, chamador, req, run, det, con, aviso>>

\* lines 318-324: audit.iniciar_operacao('UPDATE', ..., origem='API'), which commits
ParIniciarOperacao ==
    /\ pc = "c_correm"
    /\ \E p \in 1..2, ok \in BOOLEAN :
          /\ Ped(p).pc = "iniciar"
          /\ DesfechoPar(p, ok)
          /\ IF ok
             THEN /\ db' = InsertOperacao(db, "UPDATE", "API")
                  /\ par' = [par EXCEPT !.pedidos[p] =
                                [@ EXCEPT !.op_id = Len(db.ops) + 1, !.pc = "update"]]
             ELSE /\ par' = [par EXCEPT !.pedidos[p] =
                                [@ EXCEPT !.abortada = FALSE, !.status = "erro",
                                          !.pc = "saida"]]
                  /\ UNCHANGED db
    /\ UNCHANGED <<tx, abortada, pc, divergencias, modo, limite, i, op_id, div_id,
                   rowcount, erro, resultado, hist, chamador, req, run, det, con, aviso>>

\* lines 327-334: UPDATE byd.controladoria SET {campo} = %s WHERE idnfsexterno = %s;
\* it waits while the other connection holds its UPDATE of the same rows
ParUpdate ==
    /\ pc = "c_correm"
    /\ \E p \in 1..2, ok \in BOOLEAN :
          /\ Ped(p).pc = "update"
          /\ ~Ped(Outro(p)).pendente
          /\ DesfechoPar(p, ok)
          /\ par' = [par EXCEPT !.pedidos[p] =
                IF ok
                THEN [@ EXCEPT !.pendente = TRUE, !.pc = "atualizar"]
                ELSE [@ EXCEPT !.abortada = TRUE, !.status = "erro", !.pc = "saida"]]
    /\ UNCHANGED <<db, tx, abortada, pc, divergencias, modo, limite, i, op_id, div_id,
                   rowcount, erro, resultado, hist, chamador, req, run, det, con, aviso>>

\* lines 337-342: audit.atualizar_status_divergencia(div_id, 'APPROVED', ...),
\* which commits the connection, or rolls it back when the statement fails
ParAtualizarStatus ==
    /\ pc = "c_correm"
    /\ \E p \in 1..2, ok \in BOOLEAN :
          /\ Ped(p).pc = "atualizar"
          /\ DesfechoPar(p, ok)
          /\ IF ok
             THEN /\ db' = UpdateDivergencia(Visao(p), IdDoPar, "APPROVED",
                                             ValorDoPedido(p), NULL)
                  /\ par' = [par EXCEPT !.pedidos[p] =
                                [@ EXCEPT !.pendente = FALSE, !.pc = "finalizar"],
                             !.escritas = @ + 1,
                             !.efeitos = Append(@, p)]
             ELSE /\ par' = [par EXCEPT !.pedidos[p] =
                                [@ EXCEPT !.pendente = FALSE, !.abortada = FALSE,
                                          !.status = "erro", !.pc = "saida"]]
                  /\ UNCHANGED db
    /\ UNCHANGED <<tx, abortada, pc, divergencias, modo, limite, i, op_id, div_id,
                   rowcount, erro, resultado, hist, chamador, req, run, det, con, aviso>>

\* lines 344-350: audit.finalizar_operacao(op_id, status='SUCCESS')
ParFinalizarOperacao ==
    /\ pc = "c_correm"
    /\ \E p \in 1..2, ok \in BOOLEAN :
          /\ Ped(p).pc = "finalizar"
          /\ DesfechoPar(p, ok)
          /\ IF ok
             THEN /\ db' = UpdateOperacao(db, Ped(p).op_id, "SUCCESS", 0, NULL)
                  /\ par' = [par EXCEPT !.pedidos[p] =
                                [@ EXCEPT !.status = "aprovado", !.pc = "saida"]]
             ELSE /\ par' = [par EXCEPT !.pedidos[p] =
                                [@ EXCEPT !.abortada = FALSE, !.status = "erro",
                                          !.pc = "saida"]]
                  /\ UNCHANGED db
    /\ UNCHANGED <<tx, abortada, pc, divergencias, modo, limite, i, op_id, div_id,
                   rowcount, erro, resultado, hist, chamador, req, run, det, con, aviso>>

\* lines 360-368 and conn.py 86-93: conn.commit() after the loop, return,
\* commit, close; at this point the connection holds nothing uncommitted
ParSaida ==
    /\ pc = "c_correm"
    /\ \E p \in 1..2 :
          /\ Ped(p).pc = "saida"
          /\ par' = [par EXCEPT !.pedidos[p] =
                        [@ EXCEPT !.pendente = FALSE, !.abortada = FALSE, !.pc = "fim"]]
    /\ UNCHANGED <<db, tx, abortada, pc, divergencias, modo, limite, i, op_id, div_id,
                   rowcount, erro, resultado, falhas, hist, chamador, req, run, det, con,
                   aviso>>

\* rejeitar_divergencia, lines 383-415: atualizar_status_divergencia(id,
\* 'REJECTED', ...) whatever the status of the record is
ParRejeitar ==
    /\ pc = "c_correm"
    /\ \E p \in 1..2, ok \in BOOLEAN :
          /\ Ped(p).pc = "rejeitar"
          /\ DesfechoPar(p, ok)
          /\ IF ok
             THEN /\ db' = UpdateDivergencia(db, IdDoPar, "REJECTED", SemValor, "motivo")
                  /\ par' = [par EXCEPT !.pedidos[p] =
                                [@ EXCEPT !.status = "rejeitado", !.pc = "fim"],
                             !.efeitos = Append(@, p)]
             ELSE /\ par' = [par EXCEPT !.pedidos[p] =
                                [@ EXCEPT !.status = "erro", !.pc = "fim"]]
                  /\ UNCHANGED db
    /\ UNCHANGED <<tx, abortada, pc, divergencias, modo, limite, i, op_id, div_id,
                   rowcount, erro, resultado, hist, chamador, req, run, det, con, aviso>>

\* both responses were sent
ParFim ==
    /\ pc = "c_correm"
    /\ \A p \in 1..2 : Ped(p).pc = "fim"
    /\ pc' = "c_fim"
    /\ UNCHANGED <<db, tx, abortada, divergencias, modo, limite, i, op_id, div_id, rowcount,
                   erro, resultado, falhas, hist, chamador, req, run, det, con, aviso, par>>

NextConcorrente ==
    \/ ParDetectada
    \/ ParChegam
    \/ ParSelect
    \/ ParIniciarOperacao
    \/ ParUpdate
    \/ ParAtualizarStatus
    \/ ParFinalizarOperacao
    \/ ParSaida
    \/ ParRejeitar
    \/ ParFim

SpecConcorrente == Init /\ [][NextConcorrente]_vars

\* the operations of the approve endpoint that ended in SUCCESS
AprovacoesComSucesso ==
    { k \in DOMAIN db.ops : db.ops[k].origem = "API" /\ db.ops[k].status = "SUCCESS" }

\* C27: of two concurrent requests for the same DETECTED divergence (two
\* approvals, or an approval and a rejection), each on its own connection,
\* at most one takes effect: the target table is written at most once, at
\* most one operation ends in SUCCESS, and the status of the record was set
\* by one request only.
C27_NoMaximoUmPedidoTemEfeito ==
    /\ par.escritas <= 1
    /\ Cardinality(AprovacoesComSucesso) <= 1
    /\ Len(par.efeitos) <= 1

====
